---- MODULE Spec2Model ----
(***************************************************************************)
(* A model of InfRcTransport and WorkerManager (RAMCloud), in three parts. *)
(*                                                                         *)
(* Spec: the client side of the transport: admission of requests against   *)
(* the client shared receive queue (sendOrQueue), the return of receive    *)
(* buffers (postSrqReceiveAndKickTransmit), the client half of             *)
(* Poller::poll, and the transmit buffer pool (getTransmitBuffer).  The    *)
(* HCA and the remote servers are the environment: they turn posted sends  *)
(* into transmit completions and consume posted receive buffers to produce *)
(* receive completions.                                                    *)
(*                                                                         *)
(* SpecWM: the WorkerManager: handleRpc and poll on the dispatch thread,   *)
(* worker threads that run workerMain, and the mutex of completedRpcs.     *)
(* Whether Arachne::createThread succeeds is the environment's choice.     *)
(*                                                                         *)
(* SpecHs: the queue pair handshake over UDP: clientTrySetupQueuePair with *)
(* clientTryExchangeQueuePairs, and ServerConnectHandler::handleFileEvent. *)
(* The network may lose datagrams and deliver foreign ones.                *)
(***************************************************************************)
EXTENDS Integers, Sequences, FiniteSets

\* ------------------------------------------------------------------ sizes
\* Depth of each shared receive queue (scaled down for model checking).
MAX_SHARED_RX_QUEUE_DEPTH == 2
\* Number of transmit buffers (scaled down for model checking).
MAX_TX_QUEUE_DEPTH == 2
\* Number of clientSend calls explored.
MaxRpcs == 3
\* generateRandom() draws the nonce from 1..NumNonces (collisions possible).
NumNonces == 2
\* Number of failed client receive completions the HCA may produce.
MaxFailedRx == 2
\* Number of client receive completions whose nonce the servers made up.
MaxStrayRx == 1

\* Number of WorkerManager::handleRpc calls explored.
MaxServerRpcs == 4

\* Attempts of the client handshake (scaled down for model checking).
QP_EXCHANGE_MAX_TIMEOUTS == 3
\* Timeout of one attempt, in clock readings (scaled down).
QP_EXCHANGE_USEC_TIMEOUT == 2
\* generateRandom() draws a handshake nonce from 1..NumHsNonces.
NumHsNonces == 2
\* Datagrams the network delivers to the client on its own.
MaxStrayDatagrams == 1
\* Datagrams of the wrong size the network delivers to the server.
MaxBadDatagrams == 1

\* MAX_RPC_SIZE, in bytes (scaled down for model checking).
MAX_RPC_SIZE == 3
\* sizeof(Header), in bytes (scaled down).
HeaderBytes == 1
\* Most chunks in a request handed to clientSend.
MaxChunks == 3
\* Addresses 1..MaxAddr and lengths 1..MaxChunkLen of a request's first chunk.
MaxAddr == 5
MaxChunkLen == 2
\* The log memory an application registers: LogBytes bytes from LogBase.
LogBase == 2
LogBytes == 3
\* Servers the test enlists with its coordinator list.
MaxSourceServers == 3

Nonces == 1..NumNonces
HsNonces == 1..NumHsNonces
\* rxBuffers: the first MAX_SHARED_RX_QUEUE_DEPTH go to the server SRQ, the
\* rest to the client SRQ.
RxBuffers == 1..(2 * MAX_SHARED_RX_QUEUE_DEPTH)
TxBuffers == 1..MAX_TX_QUEUE_DEPTH

VARIABLES
    rpcs,                     \* ClientRpc objects, in order of construction
    clientSendQueue,          \* ids of RPCs waiting for a receive buffer
    outstandingRpcs,          \* ids of RPCs whose request has been posted
    numUsedClientSrqBuffers,  \* uint32_t, held as its two's-complement value
    clientSrq,                \* receive buffers posted on the client SRQ
    serverSrq,                \* receive buffers posted on the server SRQ
    clientRxCq,               \* client receive completions not yet polled
    freeTxBuffers,            \* the transmit free list (used as a stack)
    commonTxCq,               \* transmit completions not yet polled
    txPosted,                 \* transmit buffers posted, completion pending
    wire,                     \* requests posted, by nonce, not yet answered
    pollActive,               \* the dispatcher is inside poll's client loop
    rxDelivered,              \* client receive completions produced so far
    rxStray,                  \* of those, replies nobody asked for
    rxFailed                  \* of those, completions with a failed status

vars == <<rpcs, clientSendQueue, outstandingRpcs, numUsedClientSrqBuffers,
          clientSrq, serverSrq, clientRxCq, freeTxBuffers, commonTxCq,
          txPosted, wire, pollActive, rxDelivered, rxStray, rxFailed>>

\* WorkerManager.
VARIABLES
    serverRpcs,          \* ServerRpcs handed to handleRpc, in order of arrival
    waitingRpcs,         \* RPCs for which no worker thread could be created
    completedRpcs,       \* RPCs whose worker is done, waiting for the reply
    completedRpcsMutex,  \* "free", or held by "dispatch" or by "worker"
    numOutstandingRpcs,
    nextRpcId,           \* the static counter of handleRpc
    pollPc,              \* where the dispatch thread is in WorkerManager::poll
    pollRpc,             \* the RPC poll has popped (0: none)
    launchLog,           \* RPCs in the order their worker threads were created
    pushLog,             \* RPCs in the order they went onto completedRpcs
    replyLog             \* RPCs in the order of their ServerRpc::sendReply

wmVars == <<serverRpcs, waitingRpcs, completedRpcs, completedRpcsMutex,
            numOutstandingRpcs, nextRpcId, pollPc, pollRpc, launchLog,
            pushLog, replyLog>>

\* The queue pair handshake.
VARIABLES
    clientHs,      \* the clientTrySetupQueuePair call and its queue pair
    udpToServer,   \* datagrams on their way to serverSetupSocket
    udpToClient,   \* datagrams on their way to clientSetupSocket
    serverQps,     \* queue pairs the server's handler has created
    queuePairMap,  \* the server's registry: queue pair number -> queue pair
    hsStats        \* what the handler and the network have done so far

hsVars == <<clientHs, udpToServer, udpToClient, serverQps, queuePairMap,
            hsStats>>

\* The shape of requests and the registered log memory.
VARIABLES
    logMemoryBase,   \* start of the registered log memory, 0 if none
    logMemoryBytes,  \* its length
    sendLog          \* the last clientSend call: its request and what became of it

sendVars == <<logMemoryBase, logMemoryBytes, sendLog>>

\* The server's receive path.
VARIABLES
    serverRxCq,    \* receive completions of the server SRQ not yet polled
    serverChunks   \* per ServerRpc: the buffer its PayloadChunk holds, or 0

srvVars == <<serverRxCq, serverChunks>>

\* The membership service of one server and the coordinator's list that
\* is pushed to it.
VARIABLES
    serverList,    \* the server's ServerList: entries [id, locator]
    source,        \* the CoordinatorServerList, in order of enlistment
    update,        \* ProtoBuf::ServerList of the additions not yet pushed
    memberLog      \* the last MembershipClient call: [seq, op]

memberVars == <<serverList, source, update, memberLog>>

allVars == <<vars, wmVars, hsVars, sendVars, srvVars, memberVars>>

\* ------------------------------------------------------- uint32_t compare
\* A uint32_t u is held as the integer k with u = k (k >= 0) or
\* u = 2^32 + k (k < 0), so 0 - 1 is -1, standing for 0xFFFFFFFF.
ULess(a, b) ==
    IF (a >= 0) = (b >= 0) THEN a < b ELSE a >= 0

Min(a, b) == IF a <= b THEN a ELSE b

RemoveAt(s, i) == [j \in 1..(Len(s) - 1) |-> IF j < i THEN s[j] ELSE s[j + 1]]

\* --------------------------------------------------------- transport state
\* The operators below work on the transport as one record.
Transport ==
    [rpcs |-> rpcs, queue |-> clientSendQueue, outstanding |-> outstandingRpcs,
     num |-> numUsedClientSrqBuffers, clientSrq |-> clientSrq,
     serverSrq |-> serverSrq, freeTx |-> freeTxBuffers, txCq |-> commonTxCq,
     txPosted |-> txPosted, wire |-> wire,
     txBd |-> 0, blocked |-> FALSE, thrown |-> FALSE]

\* Infiniband::postSrqReceive: the buffer becomes a posted receive.
postSrqReceive(t, srq, bd) ==
    IF srq = "clientSrq"
    THEN [t EXCEPT !.clientSrq = Append(@, bd)]
    ELSE [t EXCEPT !.serverSrq = Append(@, bd)]

\* Infiniband::postSend: the buffer is in flight until its completion is
\* polled; the request travels to the server under its nonce.
postSend(t, bd, nonce) ==
    [t EXCEPT !.txPosted = Append(@, bd), !.wire[nonce] = @ + 1]

\* A bug variant: only the buffers of successful transmissions are put back
\* on the free list.
drainTxCompletionsSkipFailed(t) ==
    LET n == Min(MAX_TX_QUEUE_DEPTH, Len(t.txCq))
        done == SubSeq(t.txCq, 1, n)
        good == SelectSeq(done, LAMBDA wc : wc.status = "SUCCESS")
    IN  IF t.freeTx # <<>>
        THEN t
        ELSE IF n = 0
             THEN [t EXCEPT !.blocked = TRUE]
             ELSE [t EXCEPT !.freeTx = [i \in 1..Len(good) |-> good[i].bd],
                            !.txCq = SubSeq(@, n + 1, Len(@))]

\* A bug variant: the completion queue is polled whether or not a buffer
\* is free.
drainTxCompletionsAlways(t) ==
    LET n == Min(MAX_TX_QUEUE_DEPTH, Len(t.txCq))
    IN  IF n = 0
        THEN [t EXCEPT !.blocked = (t.freeTx = <<>>)]
        ELSE [t EXCEPT !.freeTx = @ \o [i \in 1..n |-> t.txCq[i].bd],
                       !.txCq = SubSeq(@, n + 1, Len(@))]

\* The drain loop of getTransmitBuffer: while the free list is empty, poll
\* up to MAX_TX_QUEUE_DEPTH transmit completions and push each buffer on
\* the free list, whatever its status.  With nothing free and nothing
\* completed the caller keeps spinning (blocked).
drainTxCompletions(t) ==
    LET n == Min(MAX_TX_QUEUE_DEPTH, Len(t.txCq))
    IN  IF t.freeTx # <<>>
        THEN t
        ELSE IF n = 0
             THEN [t EXCEPT !.blocked = TRUE]
             ELSE [t EXCEPT !.freeTx = [i \in 1..n |-> t.txCq[i].bd],
                            !.txCq = SubSeq(@, n + 1, Len(@))]

\* A bug variant: the buffer is handed out but stays on the free list.
popFreeTxBufferNoPop(t) ==
    [t EXCEPT !.txBd = t.freeTx[Len(t.freeTx)]]

\* The end of getTransmitBuffer: take the back of the free list.
popFreeTxBuffer(t) ==
    [t EXCEPT !.txBd = t.freeTx[Len(t.freeTx)],
              !.freeTx = SubSeq(@, 1, Len(@) - 1)]

\* getTransmitBuffer
getTransmitBuffer(t) ==
    LET d == drainTxCompletions(t)
    IN  IF d.blocked THEN d ELSE popFreeTxBuffer(d)

\* A bug variant: the admission test is <= instead of <.
sendOrQueueOffByOne(t, r) ==
    IF ~ULess(MAX_SHARED_RX_QUEUE_DEPTH, t.num)
    THEN LET g == getTransmitBuffer(t)
         IN  IF g.blocked
             THEN g
             ELSE [postSend(g, g.txBd, g.rpcs[r].nonce) EXCEPT
                     !.outstanding = Append(@, r),
                     !.num = @ + 1,
                     !.rpcs[r].state = "REQUEST_SENT"]
    ELSE [t EXCEPT !.queue = Append(@, r)]

\* A bug variant: the request is posted but the counter is not incremented.
sendOrQueueNoCount(t, r) ==
    IF ULess(t.num, MAX_SHARED_RX_QUEUE_DEPTH)
    THEN LET g == getTransmitBuffer(t)
         IN  IF g.blocked
             THEN g
             ELSE [postSend(g, g.txBd, g.rpcs[r].nonce) EXCEPT
                     !.outstanding = Append(@, r),
                     !.rpcs[r].state = "REQUEST_SENT"]
    ELSE [t EXCEPT !.queue = Append(@, r)]

\* ClientRpc::sendOrQueue
sendOrQueue(t, r) ==
    IF ULess(t.num, MAX_SHARED_RX_QUEUE_DEPTH)
    THEN LET g == getTransmitBuffer(t)
         IN  IF g.blocked
             THEN g
             ELSE [postSend(g, g.txBd, g.rpcs[r].nonce) EXCEPT
                     !.outstanding = Append(@, r),
                     !.num = @ + 1,
                     !.rpcs[r].state = "REQUEST_SENT"]
    ELSE [t EXCEPT !.queue = Append(@, r)]

\* A bug variant: the head of clientSendQueue is sent but not popped.
postSrqReceiveAndKickTransmitNoPop(t, srq, bd) ==
    LET p == postSrqReceive(t, srq, bd)
    IN  IF srq = "clientSrq"
        THEN LET d == [p EXCEPT !.num = @ - 1]
             IN  IF d.queue # <<>>
                 THEN sendOrQueue(d, Head(d.queue))
                 ELSE d
        ELSE p

\* postSrqReceiveAndKickTransmit
postSrqReceiveAndKickTransmit(t, srq, bd) ==
    LET p == postSrqReceive(t, srq, bd)
    IN  IF srq = "clientSrq"
        THEN LET d == [p EXCEPT !.num = @ - 1]
             IN  IF d.queue # <<>>
                 THEN sendOrQueue([d EXCEPT !.queue = Tail(@)], Head(d.queue))
                 ELSE d
        ELSE p

\* A bug variant: the loop gives the server SRQ one buffer more.
RECURSIVE SeedRxBuffersUneven(_, _)
SeedRxBuffersUneven(t, i) ==
    IF i > 2 * MAX_SHARED_RX_QUEUE_DEPTH
    THEN t
    ELSE SeedRxBuffersUneven(
           postSrqReceiveAndKickTransmit(
             t, IF i - 1 <= MAX_SHARED_RX_QUEUE_DEPTH THEN "serverSrq"
                                                      ELSE "clientSrq", i),
           i + 1)

\* The constructor's loop over rxBuffers, from buffer i on.
RECURSIVE SeedRxBuffers(_, _)
SeedRxBuffers(t, i) ==
    IF i > 2 * MAX_SHARED_RX_QUEUE_DEPTH
    THEN t
    ELSE SeedRxBuffers(
           postSrqReceiveAndKickTransmit(
             t, IF i - 1 < MAX_SHARED_RX_QUEUE_DEPTH THEN "serverSrq"
                                                     ELSE "clientSrq", i),
           i + 1)

\* The transport when its constructor returns.
Constructed ==
    LET t0 == [rpcs |-> <<>>, queue |-> <<>>, outstanding |-> <<>>,
               num |-> MAX_SHARED_RX_QUEUE_DEPTH,
               clientSrq |-> <<>>, serverSrq |-> <<>>,
               freeTx |-> <<>>, txCq |-> <<>>, txPosted |-> <<>>,
               wire |-> [n \in Nonces |-> 0],
               txBd |-> 0, blocked |-> FALSE, thrown |-> FALSE]
        t1 == SeedRxBuffers(t0, 1)
    IN  [t1 EXCEPT !.freeTx = [i \in TxBuffers |-> i]]

\* A bug variant: the reply goes to the oldest outstanding RPC.
FirstMatchAnyNonce(t, n) ==
    IF t.outstanding = <<>> THEN 0 ELSE 1

\* A bug variant: a reply whose nonce matches nothing goes to the oldest
\* outstanding RPC.
FirstMatchOrOldest(t, n) ==
    LET hits == {i \in 1..Len(t.outstanding) :
                    t.rpcs[t.outstanding[i]].nonce = n}
    IN  IF hits = {} THEN (IF t.outstanding = <<>> THEN 0 ELSE 1)
        ELSE CHOOSE i \in hits : \A j \in hits : i <= j

\* The scan of outstandingRpcs in Poller::poll: the position of the first
\* RPC whose nonce is n, or 0 when there is none.
FirstMatch(t, n) ==
    LET hits == {i \in 1..Len(t.outstanding) :
                    t.rpcs[t.outstanding[i]].nonce = n}
    IN  IF hits = {} THEN 0
        ELSE CHOOSE i \in hits : \A j \in hits : i <= j

\* A bug variant: the RPC is marked finished but its state is left alone.
finishRpcKeepState(t, r, wc) ==
    [t EXCEPT !.rpcs[r].finished = @ + 1,
              !.rpcs[r].respNonce = wc.nonce,
              !.rpcs[r].respMsg = wc.id]

\* rpc.state = RESPONSE_RECEIVED; rpc.markFinished(), for the message wc.
finishRpc(t, r, wc) ==
    [t EXCEPT !.rpcs[r].state = "RESPONSE_RECEIVED",
              !.rpcs[r].finished = @ + 1,
              !.rpcs[r].respNonce = wc.nonce,
              !.rpcs[r].respMsg = wc.id]

\* A bug variant: the copy path returns the buffer and still leaves a
\* PayloadChunk for it in the response.
attachResponseCopyAndChunk(t, r, wc) ==
    IF ~ULess(t.num, MAX_SHARED_RX_QUEUE_DEPTH \div 2)
    THEN postSrqReceiveAndKickTransmit(
           [t EXCEPT !.rpcs[r].response = "chunk", !.rpcs[r].bd = wc.bd],
           "clientSrq", wc.bd)
    ELSE [t EXCEPT !.rpcs[r].response = "chunk", !.rpcs[r].bd = wc.bd]

\* A bug variant: the payload is copied only when every buffer is in use.
attachResponseWhenFull(t, r, wc) ==
    IF ~ULess(t.num, MAX_SHARED_RX_QUEUE_DEPTH)
    THEN postSrqReceiveAndKickTransmit(
           [t EXCEPT !.rpcs[r].response = "copied"], "clientSrq", wc.bd)
    ELSE [t EXCEPT !.rpcs[r].response = "chunk", !.rpcs[r].bd = wc.bd]

\* The payload of wc reaches the response of r: copied, with the buffer
\* returned at once, when at least half of the client SRQ is in use, and
\* otherwise as a PayloadChunk that keeps the buffer.
attachResponse(t, r, wc) ==
    IF ~ULess(t.num, MAX_SHARED_RX_QUEUE_DEPTH \div 2)
    THEN postSrqReceiveAndKickTransmit(
           [t EXCEPT !.rpcs[r].response = "copied"], "clientSrq", wc.bd)
    ELSE [t EXCEPT !.rpcs[r].response = "chunk", !.rpcs[r].bd = wc.bd]

\* One iteration of the client loop of Poller::poll on completion wc.
pollClientRx(t, wc) ==
    IF wc.status # "SUCCESS"
    THEN [postSrqReceiveAndKickTransmit(t, "clientSrq", wc.bd)
            EXCEPT !.thrown = TRUE]
    ELSE LET i == FirstMatch(t, wc.nonce)
         IN  IF i = 0
             THEN t
             ELSE LET r == t.outstanding[i]
                      e == [t EXCEPT !.outstanding = RemoveAt(@, i)]
                  IN  finishRpc(attachResponse(e, r, wc), r, wc)

\* A ClientRpc as its constructor leaves it.
NewClientRpc(nonce) ==
    [nonce |-> nonce, state |-> "PENDING", response |-> "none", bd |-> 0,
     finished |-> 0, respNonce |-> 0, respMsg |-> 0]

\* The WorkerManager after its constructor, with the dispatch thread
\* outside poll.
WorkerManagerConstructed ==
    /\ serverRpcs = <<>>
    /\ waitingRpcs = <<>>
    /\ completedRpcs = <<>>
    /\ completedRpcsMutex = "free"
    /\ numOutstandingRpcs = 0
    /\ nextRpcId = 0
    /\ pollPc = "idle"
    /\ pollRpc = 0
    /\ launchLog = <<>>
    /\ pushLog = <<>>
    /\ replyLog = <<>>

\* No handshake has begun, no queue pair exists, the network is empty.
HandshakeIdle ==
    /\ clientHs = [pc |-> "idle", i |-> 0, haveSent |-> FALSE,
                    usTimeout |-> 0,
                    outgoing |-> [size |-> "none", lid |-> "none",
                                  qpn |-> 0, nonce |-> 0],
                    incoming |-> [size |-> "none", lid |-> "none",
                                  qpn |-> 0, nonce |-> 0],
                    peer |-> [size |-> "none", lid |-> "none",
                              qpn |-> 0, nonce |-> 0],
                    qp |-> "none", result |-> "none", sent |-> 0,
                    retries |-> 0]
    /\ udpToServer = {}
    /\ udpToClient = {}
    /\ serverQps = <<>>
    /\ queuePairMap = <<>>
    /\ hsStats = [wellFormed |-> 0, badSize |-> 0, sendFailed |-> 0,
                   strays |-> 0, bads |-> 0]

\* What a posted request looks like when nothing was posted.
NoMessage == [sges |-> 0, copied |-> 0]

\* The constructor registers no log memory, and no clientSend call yet.
SendPathConstructed ==
    /\ logMemoryBase = 0
    /\ logMemoryBytes = 0
    /\ sendLog = [seq |-> 0, req |-> <<>>, outcome |-> "none",
                  posted |-> NoMessage]

\* ---------------------------------------------------------------- actions
Install(t) ==
    /\ ~t.blocked
    /\ rpcs' = t.rpcs
    /\ clientSendQueue' = t.queue
    /\ outstandingRpcs' = t.outstanding
    /\ numUsedClientSrqBuffers' = t.num
    /\ clientSrq' = t.clientSrq
    /\ serverSrq' = t.serverSrq
    /\ freeTxBuffers' = t.freeTx
    /\ commonTxCq' = t.txCq
    /\ txPosted' = t.txPosted
    /\ wire' = t.wire

\* The transport's own state after its constructor.
TransportConstructed ==
    /\ rpcs = Constructed.rpcs
    /\ clientSendQueue = Constructed.queue
    /\ outstandingRpcs = Constructed.outstanding
    /\ numUsedClientSrqBuffers = Constructed.num
    /\ clientSrq = Constructed.clientSrq
    /\ serverSrq = Constructed.serverSrq
    /\ freeTxBuffers = Constructed.freeTx
    /\ commonTxCq = Constructed.txCq
    /\ txPosted = Constructed.txPosted
    /\ wire = Constructed.wire
    /\ clientRxCq = <<>>
    /\ pollActive = FALSE
    /\ rxDelivered = 0
    /\ rxStray = 0
    /\ rxFailed = 0
    /\ serverRxCq = <<>>
    /\ serverChunks = <<>>

\* The ServerId of the server under test.
serverId == <<99, 2>>

\* MembershipServiceTest's constructor: the server's list holds the
\* server's own entry; nothing has been enlisted with a coordinator.
MembershipServiceTestConstructed ==
    /\ serverList = {[id |-> serverId, locator |-> "mock:host=member"]}
    /\ source = <<>>
    /\ update = <<>>
    /\ memberLog = [seq |-> 0, op |-> "none"]

Init ==
    /\ TransportConstructed
    /\ WorkerManagerConstructed
    /\ HandshakeIdle
    /\ SendPathConstructed
    /\ MembershipServiceTestConstructed

\* InfRCSession::clientSend
ClientSend ==
    /\ ~pollActive
    /\ Len(rpcs) < MaxRpcs
    /\ \E nonce \in Nonces :
         LET r == Len(rpcs) + 1
             t == [Transport EXCEPT !.rpcs = Append(@, NewClientRpc(nonce))]
         IN  Install(sendOrQueue(t, r))
    /\ UNCHANGED <<clientRxCq, pollActive, rxDelivered, rxStray, rxFailed>>

\* Poller::poll, one turn of its client loop.  The loop is entered only
\* with outstandingRpcs non-empty and then runs until the completion queue
\* is empty (PollReturn) or a failed completion throws.
PollClientRx ==
    /\ pollActive \/ outstandingRpcs # <<>>
    /\ clientRxCq # <<>>
    /\ LET t == pollClientRx(Transport, Head(clientRxCq))
       IN  /\ Install(t)
           /\ pollActive' = ~t.thrown
    /\ clientRxCq' = Tail(clientRxCq)
    /\ UNCHANGED <<rxDelivered, rxStray, rxFailed>>

\* Poller::poll leaves its client loop: pollCompletionQueue found nothing.
PollReturn ==
    /\ pollActive
    /\ clientRxCq = <<>>
    /\ pollActive' = FALSE
    /\ UNCHANGED <<rpcs, clientSendQueue, outstandingRpcs,
                   numUsedClientSrqBuffers, clientSrq, serverSrq, clientRxCq,
                   freeTxBuffers, commonTxCq, txPosted, wire, rxDelivered,
                   rxStray, rxFailed>>

\* The caller destroys the response Buffer of a finished RPC; a
\* PayloadChunk in it hands its receive buffer back.
DestroyResponse ==
    /\ ~pollActive
    /\ \E r \in 1..Len(rpcs) :
         /\ rpcs[r].state = "RESPONSE_RECEIVED"
         /\ rpcs[r].response \in {"copied", "chunk"}
         /\ LET t == [Transport EXCEPT !.rpcs[r].response = "destroyed"]
            IN  IF rpcs[r].response = "chunk"
                THEN Install(postSrqReceiveAndKickTransmit(
                               t, "clientSrq", rpcs[r].bd))
                ELSE Install(t)
    /\ UNCHANGED <<clientRxCq, pollActive, rxDelivered, rxStray, rxFailed>>

\* The HCA receives a message (or fails to) into the buffer at the head of
\* the client SRQ and queues the completion.
Complete(status, nonce) ==
    /\ clientSrq # <<>>
    /\ clientRxCq' = Append(clientRxCq,
                            [bd |-> Head(clientSrq), status |-> status,
                             nonce |-> nonce, id |-> rxDelivered + 1])
    /\ clientSrq' = Tail(clientSrq)
    /\ rxDelivered' = rxDelivered + 1

\* A server answers a request, echoing its nonce.
HcaRxReply ==
    /\ \E n \in Nonces :
         /\ wire[n] > 0
         /\ wire' = [wire EXCEPT ![n] = @ - 1]
         /\ Complete("SUCCESS", n)
    /\ UNCHANGED <<rpcs, clientSendQueue, outstandingRpcs,
                   numUsedClientSrqBuffers, serverSrq, freeTxBuffers,
                   commonTxCq, txPosted, pollActive, rxStray, rxFailed>>

\* A message arrives whose nonce answers no request on the wire.
HcaRxStray ==
    /\ rxStray < MaxStrayRx
    /\ \E n \in Nonces : Complete("SUCCESS", n)
    /\ rxStray' = rxStray + 1
    /\ UNCHANGED <<rpcs, clientSendQueue, outstandingRpcs,
                   numUsedClientSrqBuffers, serverSrq, freeTxBuffers,
                   commonTxCq, txPosted, wire, pollActive, rxFailed>>

\* A receive completes with a status other than IBV_WC_SUCCESS.
HcaRxFailed ==
    /\ rxFailed < MaxFailedRx
    /\ Complete("FAILED", 0)
    /\ rxFailed' = rxFailed + 1
    /\ UNCHANGED <<rpcs, clientSendQueue, outstandingRpcs,
                   numUsedClientSrqBuffers, serverSrq, freeTxBuffers,
                   commonTxCq, txPosted, wire, pollActive, rxStray>>

\* The HCA finishes a posted send, successfully or not.
HcaTxComplete ==
    /\ \E i \in 1..Len(txPosted), status \in {"SUCCESS", "FAILED"} :
         /\ commonTxCq' = Append(commonTxCq,
                                 [bd |-> txPosted[i], status |-> status])
         /\ txPosted' = RemoveAt(txPosted, i)
    /\ UNCHANGED <<rpcs, clientSendQueue, outstandingRpcs,
                   numUsedClientSrqBuffers, clientSrq, serverSrq, clientRxCq,
                   freeTxBuffers, wire, pollActive, rxDelivered, rxStray,
                   rxFailed>>

\* The client side of the transport; the rest of the program stands still.
Next ==
    \/ ClientSend /\ UNCHANGED <<wmVars, hsVars, sendVars, srvVars, memberVars>>
    \/ PollClientRx /\ UNCHANGED <<wmVars, hsVars, sendVars, srvVars, memberVars>>
    \/ PollReturn /\ UNCHANGED <<wmVars, hsVars, sendVars, srvVars, memberVars>>
    \/ DestroyResponse /\ UNCHANGED <<wmVars, hsVars, sendVars, srvVars, memberVars>>
    \/ HcaRxReply /\ UNCHANGED <<wmVars, hsVars, sendVars, srvVars, memberVars>>
    \/ HcaRxStray /\ UNCHANGED <<wmVars, hsVars, sendVars, srvVars, memberVars>>
    \/ HcaRxFailed /\ UNCHANGED <<wmVars, hsVars, sendVars, srvVars, memberVars>>
    \/ HcaTxComplete /\ UNCHANGED <<wmVars, hsVars, sendVars, srvVars, memberVars>>

Spec == Init /\ [][Next]_allVars

\* ---------------------------------------------------------- WorkerManager
\* What a request looks like to handleRpc.
RequestKinds == {"valid", "noHeader", "illegalOpcode"}

\* The operators below work on the WorkerManager as one record.
Manager ==
    [rpcs |-> serverRpcs, waiting |-> waitingRpcs,
     completed |-> completedRpcs, num |-> numOutstandingRpcs,
     nextId |-> nextRpcId, launched |-> launchLog, pushed |-> pushLog,
     replied |-> replyLog]

\* A ServerRpc as the transport hands it to handleRpc: no id yet, no reply.
NewServerRpc(kind) ==
    [kind |-> kind, id |-> -1, phase |-> "new", reply |-> "none",
     replySent |-> FALSE]

\* Arachne::createThread(&WorkerManager::workerMain, this, rpc) succeeds.
createThread(m, r) ==
    [m EXCEPT !.rpcs[r].phase = "running", !.launched = Append(@, r)]

\* rpc->sendReply() on the dispatch thread: the transport sends the reply
\* and the ServerRpc is gone.
ServerRpcSendReply(m, r) ==
    [m EXCEPT !.rpcs[r].phase = "replied", !.replied = Append(@, r)]

\* A bug variant: a request is launched without looking at waitingRpcs.
handleRpcIgnoreWaiting(m, r, ok) ==
    IF m.rpcs[r].kind = "noHeader"
    THEN ServerRpcSendReply(
           [m EXCEPT !.rpcs[r].reply = "STATUS_MESSAGE_TOO_SHORT"], r)
    ELSE IF m.rpcs[r].kind = "illegalOpcode"
    THEN ServerRpcSendReply(
           [m EXCEPT !.rpcs[r].reply = "STATUS_UNIMPLEMENTED_REQUEST"], r)
    ELSE LET i == [m EXCEPT !.num = @ + 1, !.rpcs[r].id = m.nextId,
                            !.nextId = @ + 1]
         IN  IF ok THEN createThread(i, r)
             ELSE [i EXCEPT !.waiting = Append(@, r),
                            !.rpcs[r].phase = "waiting"]

\* A bug variant: the request is counted before it is validated.
handleRpcCountFirst(m, r, ok) ==
    LET n == [m EXCEPT !.num = @ + 1]
    IN  IF n.rpcs[r].kind = "noHeader"
        THEN ServerRpcSendReply(
               [n EXCEPT !.rpcs[r].reply = "STATUS_MESSAGE_TOO_SHORT"], r)
        ELSE IF n.rpcs[r].kind = "illegalOpcode"
        THEN ServerRpcSendReply(
               [n EXCEPT !.rpcs[r].reply = "STATUS_UNIMPLEMENTED_REQUEST"], r)
        ELSE IF n.waiting # <<>>
        THEN [n EXCEPT !.waiting = Append(@, r), !.rpcs[r].phase = "waiting"]
        ELSE LET i == [n EXCEPT !.rpcs[r].id = n.nextId, !.nextId = @ + 1]
             IN  IF ok THEN createThread(i, r)
                 ELSE [i EXCEPT !.waiting = Append(@, r),
                                !.rpcs[r].phase = "waiting"]

\* WorkerManager::handleRpc on ServerRpc r; ok tells whether createThread,
\* if it is called, succeeds.
handleRpc(m, r, ok) ==
    IF m.rpcs[r].kind = "noHeader"
    THEN ServerRpcSendReply(
           [m EXCEPT !.rpcs[r].reply = "STATUS_MESSAGE_TOO_SHORT"], r)
    ELSE IF m.rpcs[r].kind = "illegalOpcode"
    THEN ServerRpcSendReply(
           [m EXCEPT !.rpcs[r].reply = "STATUS_UNIMPLEMENTED_REQUEST"], r)
    ELSE LET n == [m EXCEPT !.num = @ + 1]
         IN  IF n.waiting # <<>>
             THEN [n EXCEPT !.waiting = Append(@, r),
                            !.rpcs[r].phase = "waiting"]
             ELSE LET i == [n EXCEPT !.rpcs[r].id = n.nextId,
                                     !.nextId = @ + 1]
                  IN  IF ok THEN createThread(i, r)
                      ELSE [i EXCEPT !.waiting = Append(@, r),
                                     !.rpcs[r].phase = "waiting"]

\* Service::handleRpc: the service fills in the reply and returns.
ServiceHandleRpc(m, r) ==
    [m EXCEPT !.rpcs[r].reply = "STATUS_OK", !.rpcs[r].phase = "serviced"]

\* A bug variant: the worker pushes its RPC at the front of completedRpcs.
WorkerSendReplyPushFront(m, r) ==
    [m EXCEPT !.completed = <<r>> \o @, !.pushed = Append(@, r),
              !.rpcs[r].phase = "completed", !.rpcs[r].replySent = TRUE]

\* Worker::sendReply with the mutex held: completedRpcs.push(rpc), and
\* replySent = true after the unlock.
WorkerSendReplyPush(m, r) ==
    [m EXCEPT !.completed = Append(@, r), !.pushed = Append(@, r),
              !.rpcs[r].phase = "completed", !.rpcs[r].replySent = TRUE]

\* A bug variant: the waiter is dequeued whether or not its thread exists.
pollPostProcessAlwaysPop(m, rpc, ok) ==
    LET p == IF m.waiting # <<>>
             THEN IF ok
                  THEN [createThread(m, Head(m.waiting))
                          EXCEPT !.waiting = Tail(@)]
                  ELSE [m EXCEPT !.waiting = Tail(@)]
             ELSE m
    IN  [ServerRpcSendReply(p, rpc) EXCEPT !.num = @ - 1]

\* A bug variant: the counter is decremented twice for one reply.
pollPostProcessDoubleCount(m, rpc, ok) ==
    LET p == IF m.waiting # <<>> /\ ok
             THEN [createThread(m, Head(m.waiting))
                     EXCEPT !.waiting = Tail(@)]
             ELSE m
    IN  [ServerRpcSendReply(p, rpc) EXCEPT !.num = @ - 2]

\* A bug variant: poll sends the reply of the RPC it popped twice.
pollPostProcessReplyTwice(m, rpc, ok) ==
    LET p == IF m.waiting # <<>> /\ ok
             THEN [createThread(m, Head(m.waiting))
                     EXCEPT !.waiting = Tail(@)]
             ELSE m
    IN  [ServerRpcSendReply(ServerRpcSendReply(p, rpc), rpc)
           EXCEPT !.num = @ - 1]

\* A bug variant: poll replies and leaves the counter as it is.
pollPostProcessNoCount(m, rpc, ok) ==
    LET p == IF m.waiting # <<>> /\ ok
             THEN [createThread(m, Head(m.waiting))
                     EXCEPT !.waiting = Tail(@)]
             ELSE m
    IN  ServerRpcSendReply(p, rpc)

\* WorkerManager::poll between lock.unlock() and lock.lock(), for the RPC
\* it has popped: launch the first waiter if a thread can be created (ok),
\* send the reply, decrement the counter.
pollPostProcess(m, rpc, ok) ==
    LET p == IF m.waiting # <<>> /\ ok
             THEN [createThread(m, Head(m.waiting))
                     EXCEPT !.waiting = Tail(@)]
             ELSE m
    IN  [ServerRpcSendReply(p, rpc) EXCEPT !.num = @ - 1]

InstallManager(m) ==
    /\ serverRpcs' = m.rpcs
    /\ waitingRpcs' = m.waiting
    /\ completedRpcs' = m.completed
    /\ numOutstandingRpcs' = m.num
    /\ nextRpcId' = m.nextId
    /\ launchLog' = m.launched
    /\ pushLog' = m.pushed
    /\ replyLog' = m.replied

\* The transport's poller hands a new request to handleRpc; this happens
\* on the dispatch thread, so not while it is inside WorkerManager::poll.
HandleRpc ==
    /\ pollPc = "idle"
    /\ Len(serverRpcs) < MaxServerRpcs
    /\ \E kind \in RequestKinds, ok \in BOOLEAN :
         LET r == Len(serverRpcs) + 1
             m == [Manager EXCEPT !.rpcs = Append(@, NewServerRpc(kind))]
         IN  InstallManager(handleRpc(m, r, ok))
    /\ UNCHANGED <<completedRpcsMutex, pollPc, pollRpc>>

\* workerMain up to the return of Service::handleRpc.
WorkerMainService(r) ==
    /\ serverRpcs[r].phase = "running"
    /\ InstallManager(ServiceHandleRpc(Manager, r))
    /\ UNCHANGED <<completedRpcsMutex, pollPc, pollRpc>>

\* A bug variant: the worker enters its critical section without waiting
\* for the mutex.
WorkerSendReplyNoLock(r) ==
    /\ serverRpcs[r].phase = "serviced"
    /\ ~serverRpcs[r].replySent
    /\ completedRpcsMutex' = "worker"
    /\ serverRpcs' = [serverRpcs EXCEPT ![r].phase = "pushing"]
    /\ UNCHANGED <<waitingRpcs, completedRpcs, numOutstandingRpcs, nextRpcId,
                   pollPc, pollRpc, launchLog, pushLog, replyLog>>

\* Worker::sendReply: replySent is false, completedRpcsMutex.lock().
WorkerSendReplyLock(r) ==
    /\ serverRpcs[r].phase = "serviced"
    /\ ~serverRpcs[r].replySent
    /\ completedRpcsMutex = "free"
    /\ completedRpcsMutex' = "worker"
    /\ serverRpcs' = [serverRpcs EXCEPT ![r].phase = "pushing"]
    /\ UNCHANGED <<waitingRpcs, completedRpcs, numOutstandingRpcs, nextRpcId,
                   pollPc, pollRpc, launchLog, pushLog, replyLog>>

\* Worker::sendReply: push, unlock; the worker thread then exits.
WorkerSendReplyUnlock(r) ==
    /\ serverRpcs[r].phase = "pushing"
    /\ InstallManager(WorkerSendReplyPush(Manager, r))
    /\ completedRpcsMutex' = "free"
    /\ UNCHANGED <<pollPc, pollRpc>>

\* WorkerManager::poll takes the mutex: on entry, and again at the end of
\* each turn of its loop.
PollLock ==
    /\ pollPc \in {"idle", "relock"}
    /\ completedRpcsMutex = "free"
    /\ completedRpcsMutex' = "dispatch"
    /\ pollPc' = "locked"
    /\ UNCHANGED <<serverRpcs, waitingRpcs, completedRpcs, numOutstandingRpcs,
                   nextRpcId, pollRpc, launchLog, pushLog, replyLog>>

\* poll finds completedRpcs empty and returns, releasing the mutex.
PollEmpty ==
    /\ pollPc = "locked"
    /\ completedRpcs = <<>>
    /\ completedRpcsMutex' = "free"
    /\ pollPc' = "idle"
    /\ UNCHANGED <<serverRpcs, waitingRpcs, completedRpcs, numOutstandingRpcs,
                   nextRpcId, pollRpc, launchLog, pushLog, replyLog>>

\* poll pops the front of completedRpcs and unlocks.
PollPop ==
    /\ pollPc = "locked"
    /\ completedRpcs # <<>>
    /\ pollRpc' = Head(completedRpcs)
    /\ completedRpcs' = Tail(completedRpcs)
    /\ serverRpcs' = [serverRpcs EXCEPT ![Head(completedRpcs)].phase = "popped"]
    /\ completedRpcsMutex' = "free"
    /\ pollPc' = "unlocked"
    /\ UNCHANGED <<waitingRpcs, numOutstandingRpcs, nextRpcId, launchLog,
                   pushLog, replyLog>>

\* poll, without the mutex: launch a waiter, reply, count down.
PollPostProcess ==
    /\ pollPc = "unlocked"
    /\ \E ok \in BOOLEAN : InstallManager(pollPostProcess(Manager, pollRpc, ok))
    /\ pollRpc' = 0
    /\ pollPc' = "relock"
    /\ UNCHANGED completedRpcsMutex

\* The WorkerManager with its worker threads; the transport stands still
\* and supplies the requests.
NextWM ==
    \/ HandleRpc /\ UNCHANGED <<vars, hsVars, sendVars, srvVars, memberVars>>
    \/ (\E r \in 1..Len(serverRpcs) : WorkerMainService(r)) /\ UNCHANGED <<vars, hsVars, sendVars, srvVars, memberVars>>
    \/ (\E r \in 1..Len(serverRpcs) : WorkerSendReplyLock(r)) /\ UNCHANGED <<vars, hsVars, sendVars, srvVars, memberVars>>
    \/ (\E r \in 1..Len(serverRpcs) : WorkerSendReplyUnlock(r))
         /\ UNCHANGED <<vars, hsVars, sendVars, srvVars, memberVars>>
    \/ PollLock /\ UNCHANGED <<vars, hsVars, sendVars, srvVars, memberVars>>
    \/ PollEmpty /\ UNCHANGED <<vars, hsVars, sendVars, srvVars, memberVars>>
    \/ PollPop /\ UNCHANGED <<vars, hsVars, sendVars, srvVars, memberVars>>
    \/ PollPostProcess /\ UNCHANGED <<vars, hsVars, sendVars, srvVars, memberVars>>

SpecWM == Init /\ [][NextWM]_allVars

\* The same with the scheduling the WorkerManager relies on: a worker
\* thread runs to its end, the dispatcher keeps calling poll and finishes
\* each call, a thread that spins on the mutex gets it, and a waiter whose
\* thread creation is attempted again and again is launched in the end.
PromoteWaiter ==
    /\ pollPc = "unlocked"
    /\ waitingRpcs # <<>>
    /\ InstallManager(pollPostProcess(Manager, pollRpc, TRUE))
    /\ pollRpc' = 0
    /\ pollPc' = "relock"
    /\ UNCHANGED completedRpcsMutex
    /\ UNCHANGED <<vars, hsVars, sendVars, srvVars, memberVars>>

FairnessWM ==
    /\ \A r \in 1..MaxServerRpcs :
         /\ WF_allVars(r <= Len(serverRpcs) /\ WorkerMainService(r)
                         /\ UNCHANGED <<vars, hsVars, sendVars, srvVars, memberVars>>)
         /\ SF_allVars(r <= Len(serverRpcs) /\ WorkerSendReplyLock(r)
                         /\ UNCHANGED <<vars, hsVars, sendVars, srvVars, memberVars>>)
         /\ WF_allVars(r <= Len(serverRpcs) /\ WorkerSendReplyUnlock(r)
                         /\ UNCHANGED <<vars, hsVars, sendVars, srvVars, memberVars>>)
    /\ SF_allVars(PollLock /\ UNCHANGED <<vars, hsVars, sendVars, srvVars, memberVars>>)
    /\ WF_allVars(PollEmpty /\ UNCHANGED <<vars, hsVars, sendVars, srvVars, memberVars>>)
    /\ WF_allVars(PollPop /\ UNCHANGED <<vars, hsVars, sendVars, srvVars, memberVars>>)
    /\ WF_allVars(PollPostProcess /\ UNCHANGED <<vars, hsVars, sendVars, srvVars, memberVars>>)
    /\ SF_allVars(PromoteWaiter)

SpecWMFair == SpecWM /\ FairnessWM

\* ----------------------------------------------------------------- claims
Range(s) == {s[i] : i \in 1..Len(s)}
Occurrences(s, x) == Cardinality({i \in 1..Len(s) : s[i] = x})
RpcIds == 1..Len(rpcs)
\* Client SRQ buffers held by PayloadChunks of responses not yet destroyed.
LoanedRpcs == {r \in RpcIds : rpcs[r].response = "chunk"}
\* Failed client receive completions the poller has processed.
FailedRxPolled ==
    rxFailed - Cardinality({i \in 1..Len(clientRxCq) :
                              clientRxCq[i].status = "FAILED"})
\* A step of the dispatcher that returned a buffer to the client SRQ.
ClientSrqReturn == Len(clientSrq') = Len(clientSrq) + 1
\* A step that is a clientSend call.
ClientSendStep == Len(rpcs') = Len(rpcs) + 1

\* C1: in every reachable state at most MAX_SHARED_RX_QUEUE_DEPTH ClientRpcs
\* are linked in outstandingRpcs.
C1_OutstandingBounded ==
    Len(outstandingRpcs) <= MAX_SHARED_RX_QUEUE_DEPTH

\* C2: no queue jumping.  A step that returns a client SRQ buffer while
\* clientSendQueue is non-empty posts the head of the queue (it becomes
\* REQUEST_SENT and leaves the queue, the others keep their order), and a
\* clientSend issued while the queue is non-empty posts nothing and is
\* appended behind the entries already queued.
C2_NoQueueJumping ==
    [][/\ (ClientSrqReturn /\ clientSendQueue # <<>>) =>
            /\ rpcs'[Head(clientSendQueue)].state = "REQUEST_SENT"
            /\ clientSendQueue' = Tail(clientSendQueue)
       /\ (ClientSendStep /\ clientSendQueue # <<>>) =>
            /\ clientSendQueue' = Append(clientSendQueue, Len(rpcs'))
            /\ outstandingRpcs' = outstandingRpcs]_vars

\* C3, as claimed: a clientSend whose sendOrQueue runs with the counter at
\* MAX_SHARED_RX_QUEUE_DEPTH posts nothing, appends the RPC to the tail of
\* clientSendQueue, leaves the counter and outstandingRpcs alone, and sets
\* the RPC's state to QUEUED.
C3_QueuedStateIsQUEUED ==
    [][(ClientSendStep
        /\ numUsedClientSrqBuffers = MAX_SHARED_RX_QUEUE_DEPTH) =>
            /\ clientSendQueue' = Append(clientSendQueue, Len(rpcs'))
            /\ numUsedClientSrqBuffers' = numUsedClientSrqBuffers
            /\ outstandingRpcs' = outstandingRpcs
            /\ txPosted' = txPosted /\ wire' = wire
            /\ rpcs'[Len(rpcs')].state = "QUEUED"]_vars

\* C3, amended: the same, except that the queued RPC's state stays PENDING.
C3_QueuedStaysPending ==
    [][(ClientSendStep
        /\ numUsedClientSrqBuffers = MAX_SHARED_RX_QUEUE_DEPTH) =>
            /\ clientSendQueue' = Append(clientSendQueue, Len(rpcs'))
            /\ numUsedClientSrqBuffers' = numUsedClientSrqBuffers
            /\ outstandingRpcs' = outstandingRpcs
            /\ txPosted' = txPosted /\ wire' = wire
            /\ rpcs'[Len(rpcs')].state = "PENDING"]_vars

\* C3 witness: an RPC sits PENDING at the tail of clientSendQueue while the
\* counter is at its maximum.
C3_Witness ==
    /\ clientSendQueue # <<>>
    /\ numUsedClientSrqBuffers = MAX_SHARED_RX_QUEUE_DEPTH
    /\ clientSendQueue[Len(clientSendQueue)] = Len(rpcs)
    /\ rpcs[Len(rpcs)].state = "PENDING"

C5_ReplyMatchesNonce ==
    /\ \A r \in RpcIds :
         /\ rpcs[r].finished <= 1
         /\ (rpcs[r].state = "RESPONSE_RECEIVED") = (rpcs[r].finished = 1)
         /\ rpcs[r].finished = 1 => rpcs[r].respNonce = rpcs[r].nonce
    /\ \A r1, r2 \in RpcIds :
         (r1 # r2 /\ rpcs[r1].finished > 0 /\ rpcs[r2].finished > 0)
             => rpcs[r1].respMsg # rpcs[r2].respMsg

\* C5 witness: a reply was surfaced to an RPC that was not the oldest
\* outstanding one, the older one carrying another nonce.
C5_Witness ==
    \E r \in RpcIds :
        /\ rpcs[r].state = "RESPONSE_RECEIVED"
        /\ outstandingRpcs # <<>>
        /\ outstandingRpcs[1] < r
        /\ rpcs[outstandingRpcs[1]].nonce # rpcs[r].nonce

\* C6: every ClientRpc is linked at most once, in at most one of
\* outstandingRpcs and clientSendQueue.
C6_LinkedAtMostOnce ==
    \A r \in RpcIds :
        Occurrences(outstandingRpcs, r) + Occurrences(clientSendQueue, r) <= 1

\* C6 witness: both lists are occupied: outstandingRpcs is full and an RPC
\* waits in clientSendQueue.
C6_Witness ==
    /\ clientSendQueue # <<>>
    /\ Len(outstandingRpcs) = MAX_SHARED_RX_QUEUE_DEPTH

\* C7: an RPC in state REQUEST_SENT is linked in outstandingRpcs and an RPC
\* in state QUEUED is linked in clientSendQueue.
C7_StateImpliesLinked ==
    \A r \in RpcIds :
        /\ rpcs[r].state = "REQUEST_SENT" => r \in Range(outstandingRpcs)
        /\ rpcs[r].state = "QUEUED" => r \in Range(clientSendQueue)

\* C7 witness: some RPC has completed while another is still REQUEST_SENT
\* and linked in outstandingRpcs.
C7_Witness ==
    /\ \E r \in RpcIds : rpcs[r].state = "RESPONSE_RECEIVED"
    /\ \E r \in Range(outstandingRpcs) : rpcs[r].state = "REQUEST_SENT"

\* C8: a ClientRpc's state moves only along PENDING -> REQUEST_SENT,
\* PENDING -> QUEUED -> REQUEST_SENT, REQUEST_SENT -> RESPONSE_RECEIVED,
\* REQUEST_SENT -> CANCELLED and any -> FAILED; an RPC is constructed
\* PENDING; and an RPC in RESPONSE_RECEIVED, CANCELLED or FAILED keeps its
\* state and is linked in neither list afterwards.
AllowedTransitions ==
    {<<"PENDING", "REQUEST_SENT">>, <<"PENDING", "QUEUED">>,
     <<"QUEUED", "REQUEST_SENT">>, <<"REQUEST_SENT", "RESPONSE_RECEIVED">>,
     <<"REQUEST_SENT", "CANCELLED">>}
TerminalStates == {"RESPONSE_RECEIVED", "CANCELLED", "FAILED"}
C8_StateMachine ==
    [][\A r \in RpcIds :
         /\ \/ rpcs'[r].state = rpcs[r].state
            \/ <<rpcs[r].state, rpcs'[r].state>> \in AllowedTransitions
            \/ rpcs[r].state \notin TerminalStates
                 /\ rpcs'[r].state = "FAILED"
         /\ rpcs[r].state \in TerminalStates =>
              /\ rpcs'[r].state = rpcs[r].state
              /\ r \notin Range(outstandingRpcs')
              /\ r \notin Range(clientSendQueue')]_vars

\* C8 witness: an RPC that had to wait in clientSendQueue (it is younger
\* than MAX_SHARED_RX_QUEUE_DEPTH others) has reached RESPONSE_RECEIVED.
C8_Witness ==
    \E r \in RpcIds :
        /\ r > MAX_SHARED_RX_QUEUE_DEPTH
        /\ rpcs[r].state = "RESPONSE_RECEIVED"

\* C9: the counter stays within [0, MAX_SHARED_RX_QUEUE_DEPTH].
C9_CounterInRange ==
    /\ 0 <= numUsedClientSrqBuffers
    /\ numUsedClientSrqBuffers <= MAX_SHARED_RX_QUEUE_DEPTH

\* C10: the transmit buffers on the free list, those posted and those whose
\* completion waits to be polled are MAX_TX_QUEUE_DEPTH together, and every
\* transmit buffer is in exactly one of these places, once.
C10_TxBuffersConserved ==
    /\ Len(freeTxBuffers) + Len(txPosted) + Len(commonTxCq)
           = MAX_TX_QUEUE_DEPTH
    /\ \A b \in TxBuffers :
         Occurrences(freeTxBuffers, b) + Occurrences(txPosted, b)
           + Cardinality({i \in 1..Len(commonTxCq) : commonTxCq[i].bd = b})
           = 1

\* C10 witness: more requests have been posted than there are transmit
\* buffers (a reclaimed buffer was handed out again) and one is in flight.
C10_Witness ==
    /\ Cardinality({r \in RpcIds : rpcs[r].state # "PENDING"})
           > MAX_TX_QUEUE_DEPTH
    /\ txPosted # <<>>

\* C11: a receive buffer is in at most one place at a time: posted once on
\* one shared receive queue, or in a completion not yet polled, or held by
\* the PayloadChunk of one response.  So the buffer of a completion is
\* posted again by the copy path or by the destructor of its PayloadChunk,
\* never by both and never twice.
C11_RxPostedOnce ==
    \A b \in RxBuffers :
        Occurrences(clientSrq, b) + Occurrences(serverSrq, b)
          + Cardinality({i \in 1..Len(clientRxCq) : clientRxCq[i].bd = b})
          + Cardinality({r \in LoanedRpcs : rpcs[r].bd = b})
          <= 1

\* C11 witness: one response was copied and its buffer posted at once,
\* another kept its buffer in a PayloadChunk whose destructor has posted
\* it again.
C11_Witness ==
    /\ \E r \in RpcIds : rpcs[r].response = "copied"
    /\ \E r \in RpcIds :
         /\ rpcs[r].response = "destroyed"
         /\ rpcs[r].bd \in Range(clientSrq)

\* -------------------------------------------------------------- handshake
\* The queue pair handshake over UDP: one clientTrySetupQueuePair call, the
\* server's ServerConnectHandler, and a network that may lose datagrams and
\* deliver datagrams nobody of the two sent.
NoTuple == [size |-> "none", lid |-> "none", qpn |-> 0, nonce |-> 0]
\* recvfrom fails with an errno other than EINTR and EAGAIN.
RecvError == [size |-> "error", lid |-> "none", qpn |-> 0, nonce |-> 0]
\* A QueuePairTuple on the wire (the initial PSN travels with the QPN).
QueuePairTuple(lid, qpn, nonce) ==
    [size |-> "ok", lid |-> lid, qpn |-> qpn, nonce |-> nonce]

\* The operators below work on both ends and the network as one record.
Handshake ==
    [c |-> clientHs, toServer |-> udpToServer, toClient |-> udpToClient,
     qps |-> serverQps, map |-> queuePairMap, stats |-> hsStats]

\* The top of the for loop of clientTrySetupQueuePair: a new outgoingQpt
\* with a fresh nonce, an empty incomingQpt, and the call of
\* clientTryExchangeQueuePairs with the full timeout.
beginAttempt(x, nonce) ==
    [x EXCEPT !.c.outgoing = QueuePairTuple("client", 1, nonce),
              !.c.incoming = NoTuple,
              !.c.haveSent = FALSE,
              !.c.usTimeout = QP_EXCHANGE_USEC_TIMEOUT,
              !.c.pc = "io"]

\* clientTryExchangeQueuePairs throws: catch (...) { delete qp; throw; }
exchangeThrows(x) ==
    [x EXCEPT !.c.qp = "deleted", !.c.result = "exception", !.c.pc = "done"]

\* A bug variant: any well-formed tuple is taken as the answer.
clientExchangeIoAnyNonce(x, sendOutcome, rcv) ==
    LET s == IF x.c.haveSent \/ sendOutcome = "again" THEN x
             ELSE IF sendOutcome = "sent"
             THEN [x EXCEPT !.c.haveSent = TRUE, !.c.sent = @ + 1,
                            !.toServer = @ \cup {x.c.outgoing}]
             ELSE exchangeThrows(x)
    IN  IF s.c.pc = "done" THEN s
        ELSE IF rcv = NoTuple THEN [s EXCEPT !.c.pc = "time"]
        ELSE IF rcv = RecvError THEN exchangeThrows(s)
        ELSE LET g == [s EXCEPT !.toClient = @ \ {rcv}, !.c.incoming = rcv]
             IN  IF rcv.size # "ok" THEN exchangeThrows(g)
                 ELSE [g EXCEPT !.c.qp = "plumbed", !.c.peer = rcv,
                                !.c.result = "connected", !.c.pc = "done"]

\* One turn of the loop of clientTryExchangeQueuePairs up to the reading of
\* the clock: sendto unless the request went out before (sendOutcome: sent,
\* EINTR/EAGAIN, or an error), then recvfrom (rcv: nothing, an error, or a
\* datagram).  A tuple with the nonce of outgoingQpt ends the exchange and
\* the caller plumbs the queue pair with it.
clientExchangeIo(x, sendOutcome, rcv) ==
    LET s == IF x.c.haveSent \/ sendOutcome = "again" THEN x
             ELSE IF sendOutcome = "sent"
             THEN [x EXCEPT !.c.haveSent = TRUE, !.c.sent = @ + 1,
                            !.toServer = @ \cup {x.c.outgoing}]
             ELSE exchangeThrows(x)
    IN  IF s.c.pc = "done" THEN s
        ELSE IF rcv = NoTuple THEN [s EXCEPT !.c.pc = "time"]
        ELSE IF rcv = RecvError THEN exchangeThrows(s)
        ELSE LET g == [s EXCEPT !.toClient = @ \ {rcv}, !.c.incoming = rcv]
             IN  IF rcv.size # "ok" THEN exchangeThrows(g)
                 ELSE IF g.c.outgoing.nonce = rcv.nonce
                 THEN [g EXCEPT !.c.qp = "plumbed", !.c.peer = rcv,
                                !.c.result = "connected", !.c.pc = "done"]
                 ELSE [g EXCEPT !.c.pc = "time"]

\* A bug variant: the loop of clientTrySetupQueuePair runs once too often.
clientTimeCheckOffByOne(x, elapsed, nonce) ==
    IF elapsed >= x.c.usTimeout
    THEN LET t == [x EXCEPT !.c.retries = @ + 1, !.c.i = @ + 1]
         IN  IF t.c.i <= QP_EXCHANGE_MAX_TIMEOUTS
             THEN beginAttempt(t, nonce)
             ELSE [t EXCEPT !.c.qp = "deleted", !.c.result = "failed",
                            !.c.pc = "done"]
    ELSE [x EXCEPT !.c.usTimeout = @ - elapsed, !.c.pc = "io"]

\* The rest of the turn: elapsedUs >= usTimeout returns false, and
\* clientTrySetupQueuePair counts the retry and starts the next attempt or,
\* after QP_EXCHANGE_MAX_TIMEOUTS attempts, deletes the queue pair and
\* throws; otherwise usTimeout -= elapsedUs and the loop goes on.
clientTimeCheck(x, elapsed, nonce) ==
    IF elapsed >= x.c.usTimeout
    THEN LET t == [x EXCEPT !.c.retries = @ + 1, !.c.i = @ + 1]
         IN  IF t.c.i < QP_EXCHANGE_MAX_TIMEOUTS
             THEN beginAttempt(t, nonce)
             ELSE [t EXCEPT !.c.qp = "deleted", !.c.result = "failed",
                            !.c.pc = "done"]
    ELSE [x EXCEPT !.c.usTimeout = @ - elapsed, !.c.pc = "io"]

\* queuePairMap[key] = qp
MapPut(map, key, qp) ==
    [k \in DOMAIN map \cup {key} |-> IF k = key THEN qp ELSE map[k]]

\* What can happen to a handler run after recvfrom: both calls succeed, or
\* plumb raises, or sendto does not send the whole reply.
HandlerOutcomes == {"ok", "plumbThrows", "sendFails"}

\* QueuePair::plumb with the peer's tuple: the queue pair goes from INIT to
\* ready; a failure raises an exception and leaves it as it was.
plumb(qp, ok) ==
    IF ok THEN [qp EXCEPT !.state = "plumbed"] ELSE qp

\* A bug variant: the queue pair is registered before the reply is sent.
handleFileEventRegisterFirst(x, d, io) ==
    IF d.size # "ok"
    THEN [x EXCEPT !.stats.badSize = @ + 1]
    ELSE LET q == Len(x.qps) + 1
             qp == [qpn |-> q, srq |-> "serverSrq", state |-> "init",
                    peer |-> d, reply |-> NoTuple]
             created ==
                 [x EXCEPT !.qps = Append(@, plumb(qp, io # "plumbThrows")),
                           !.stats.wellFormed = @ + 1]
             registered == [created EXCEPT !.map = MapPut(@, q, q)]
             outgoingQpt == QueuePairTuple("server", q, d.nonce)
         IN  IF io = "plumbThrows"
             THEN created
             ELSE IF io = "ok"
             THEN [registered EXCEPT !.toClient = @ \cup {outgoingQpt},
                                     !.qps[q].reply = outgoingQpt]
             ELSE [registered EXCEPT !.qps[q].state = "deleted",
                                     !.stats.sendFailed = @ + 1]

\* ServerConnectHandler::handleFileEvent on the datagram d that recvfrom
\* returned; io tells how plumb and sendto end.  The new queue pair gets
\* the next unused queue pair number.  An exception from plumb leaves the
\* handler at once: nothing after the call runs.
handleFileEvent(x, d, io) ==
    IF d.size # "ok"
    THEN [x EXCEPT !.stats.badSize = @ + 1]
    ELSE LET q == Len(x.qps) + 1
             qp == [qpn |-> q, srq |-> "serverSrq", state |-> "init",
                    peer |-> d, reply |-> NoTuple]
             created ==
                 [x EXCEPT !.qps = Append(@, plumb(qp, io # "plumbThrows")),
                           !.stats.wellFormed = @ + 1]
             outgoingQpt == QueuePairTuple("server", q, d.nonce)
         IN  IF io = "plumbThrows"
             THEN created
             ELSE IF io = "ok"
             THEN [created EXCEPT !.toClient = @ \cup {outgoingQpt},
                                  !.qps[q].reply = outgoingQpt,
                                  !.map = MapPut(@, q, q)]
             ELSE [created EXCEPT !.qps[q].state = "deleted",
                                  !.stats.sendFailed = @ + 1]

InstallHandshake(x) ==
    /\ clientHs' = x.c
    /\ udpToServer' = x.toServer
    /\ udpToClient' = x.toClient
    /\ serverQps' = x.qps
    /\ queuePairMap' = x.map
    /\ hsStats' = x.stats

\* clientTrySetupQueuePair is called: createQueuePair, first attempt.
ClientTrySetupQueuePair ==
    /\ clientHs.pc = "idle"
    /\ \E nonce \in HsNonces :
         InstallHandshake(beginAttempt([Handshake EXCEPT !.c.qp = "init"],
                                       nonce))

ClientExchangeIo ==
    /\ clientHs.pc = "io"
    /\ \E sendOutcome \in {"sent", "again", "error"},
          rcv \in {NoTuple, RecvError} \cup udpToClient :
         InstallHandshake(clientExchangeIo(Handshake, sendOutcome, rcv))

ClientTimeCheck ==
    /\ clientHs.pc = "time"
    /\ \E elapsed \in 0..QP_EXCHANGE_USEC_TIMEOUT, nonce \in HsNonces :
         InstallHandshake(clientTimeCheck(Handshake, elapsed, nonce))

\* The turn took long enough for the clock to show it.
ClientTimePasses ==
    /\ clientHs.pc = "time"
    /\ \E elapsed \in 1..QP_EXCHANGE_USEC_TIMEOUT, nonce \in HsNonces :
         InstallHandshake(clientTimeCheck(Handshake, elapsed, nonce))

\* serverSetupSocket is readable and the handler runs on one datagram.
ServerHandleFileEvent ==
    \E d \in udpToServer, io \in HandlerOutcomes :
        InstallHandshake(handleFileEvent(
            [Handshake EXCEPT !.toServer = @ \ {d}], d, io))

\* The network drops a datagram.
UdpLose ==
    /\ \E d \in udpToServer \cup udpToClient :
         /\ udpToServer' = udpToServer \ {d}
         /\ udpToClient' = udpToClient \ {d}
    /\ UNCHANGED <<clientHs, serverQps, queuePairMap, hsStats>>

\* A datagram reaches the client that the server did not send for it: of
\* the wrong size, or a tuple with any nonce.
UdpStrayToClient ==
    /\ hsStats.strays < MaxStrayDatagrams
    /\ \E size \in {"ok", "bad"}, nonce \in HsNonces :
         udpToClient' = udpToClient \cup
             {[QueuePairTuple("other", 0, nonce) EXCEPT !.size = size]}
    /\ hsStats' = [hsStats EXCEPT !.strays = @ + 1]
    /\ UNCHANGED <<clientHs, udpToServer, serverQps, queuePairMap>>

\* A datagram of the wrong size reaches the server.
UdpBadToServer ==
    /\ hsStats.bads < MaxBadDatagrams
    /\ udpToServer' = udpToServer \cup
           {[QueuePairTuple("other", 0, 0) EXCEPT !.size = "bad"]}
    /\ hsStats' = [hsStats EXCEPT !.bads = @ + 1]
    /\ UNCHANGED <<clientHs, udpToClient, serverQps, queuePairMap>>

NextHs ==
    \/ ClientTrySetupQueuePair /\ UNCHANGED <<vars, wmVars, sendVars, srvVars, memberVars>>
    \/ ClientExchangeIo /\ UNCHANGED <<vars, wmVars, sendVars, srvVars, memberVars>>
    \/ ClientTimeCheck /\ UNCHANGED <<vars, wmVars, sendVars, srvVars, memberVars>>
    \/ ServerHandleFileEvent /\ UNCHANGED <<vars, wmVars, sendVars, srvVars, memberVars>>
    \/ UdpLose /\ UNCHANGED <<vars, wmVars, sendVars, srvVars, memberVars>>
    \/ UdpStrayToClient /\ UNCHANGED <<vars, wmVars, sendVars, srvVars, memberVars>>
    \/ UdpBadToServer /\ UNCHANGED <<vars, wmVars, sendVars, srvVars, memberVars>>

SpecHs == Init /\ [][NextHs]_allVars

\* The same with a client that keeps running and a clock that shows the
\* passing of time in some turn of the loop again and again.
FairnessHs ==
    /\ WF_allVars(ClientExchangeIo /\ UNCHANGED <<vars, wmVars, sendVars, srvVars, memberVars>>)
    /\ SF_allVars(ClientTimePasses /\ UNCHANGED <<vars, wmVars, sendVars, srvVars, memberVars>>)

SpecHsFair == SpecHs /\ FairnessHs

\* -------------------------------------------------- WorkerManager claims
ServerRpcIds == 1..Len(serverRpcs)
\* RPCs that handleRpc accepted: counted, and given to a worker or queued.
AcceptedRpcs == {r \in ServerRpcIds : serverRpcs[r].kind = "valid"}
\* Accepted RPCs that went onto waitingRpcs behind other waiters; handleRpc
\* gives these no id.
DeferredBehind == {r \in AcceptedRpcs : serverRpcs[r].id = -1}
\* A step that created a worker thread.
LaunchStep == Len(launchLog') = Len(launchLog) + 1
\* A step that is a handleRpc call.
HandleRpcStep == Len(serverRpcs') = Len(serverRpcs) + 1
\* A step in which poll cleans up after the RPC it popped.
PostProcessStep == pollPc = "unlocked" /\ pollPc' = "relock"
IsSorted(s) == \A i, j \in 1..Len(s) : i < j => s[i] < s[j]
\* WorkerManager::idle
idle == numOutstandingRpcs = 0

\* C12: waitingRpcs holds RPCs in their order of arrival, and whenever a
\* worker thread is created for an RPC no RPC that arrived before it is
\* still waiting.  So deferred RPCs are launched in arrival order and an
\* RPC that arrives while others wait is never launched ahead of them.
C12_FifoDispatch ==
    [][/\ IsSorted(waitingRpcs')
       /\ LaunchStep =>
            \A a \in Range(waitingRpcs') :
                a > launchLog'[Len(launchLog')]]_allVars

\* C12 witness: two RPCs that had to queue behind other waiters have both
\* been launched, the older one first.
C12_Witness ==
    \E i, j \in 1..Len(launchLog) :
        /\ i < j
        /\ launchLog[i] \in DeferredBehind
        /\ launchLog[j] \in DeferredBehind

\* C13 as stated: whenever poll cleans up after a completed RPC while RPCs
\* wait, it launches exactly one waiter, the head of waitingRpcs.
C13_PromotesExactlyOne ==
    [][PostProcessStep /\ waitingRpcs # <<>> =>
          /\ waitingRpcs' = Tail(waitingRpcs)
          /\ launchLog' = Append(launchLog, Head(waitingRpcs))]_allVars

\* C13: an accepted RPC that handleRpc does not launch goes to the tail of
\* waitingRpcs; poll, cleaning up after one completed RPC, launches the
\* head of waitingRpcs and dequeues it, or (thread creation failed again,
\* or nobody waits) launches nothing and leaves waitingRpcs as it is.
C13_PromotesAtMostOne ==
    [][/\ HandleRpcStep =>
            LET r == Len(serverRpcs')
            IN  \/ serverRpcs'[r].kind # "valid"
                      /\ waitingRpcs' = waitingRpcs /\ ~LaunchStep
                \/ waitingRpcs' = waitingRpcs
                      /\ launchLog' = Append(launchLog, r)
                \/ waitingRpcs' = Append(waitingRpcs, r) /\ ~LaunchStep
       /\ PostProcessStep =>
            \/ waitingRpcs' = waitingRpcs /\ launchLog' = launchLog
            \/ /\ waitingRpcs # <<>>
               /\ waitingRpcs' = Tail(waitingRpcs)
               /\ launchLog' = Append(launchLog, Head(waitingRpcs))]_allVars

\* C13 witness: poll has just launched an RPC that had queued behind other
\* waiters, and RPCs still wait.
C13_Witness ==
    /\ pollPc = "relock"
    /\ waitingRpcs # <<>>
    /\ launchLog # <<>>
    /\ launchLog[Len(launchLog)] \in DeferredBehind

\* C14: every RPC that handleRpc accepted has its sendReply called in the
\* end.
C14_EventuallyReplied ==
    \A r \in 1..MaxServerRpcs :
        (r \in AcceptedRpcs) ~> (r \in AcceptedRpcs /\ r \in Range(replyLog))

\* C15: a handleRpc call on a request without header or with an illegal
\* opcode sends the matching error reply at once, creates no worker,
\* queues nothing and leaves numOutstandingRpcs (and nextRpcId) alone.
C15_InvalidRequestRejected ==
    [][HandleRpcStep /\ serverRpcs'[Len(serverRpcs')].kind # "valid" =>
          LET r == Len(serverRpcs')
          IN  /\ serverRpcs'[r].reply =
                    (IF serverRpcs'[r].kind = "noHeader"
                     THEN "STATUS_MESSAGE_TOO_SHORT"
                     ELSE "STATUS_UNIMPLEMENTED_REQUEST")
              /\ serverRpcs'[r].phase = "replied"
              /\ replyLog' = Append(replyLog, r)
              /\ launchLog' = launchLog
              /\ waitingRpcs' = waitingRpcs
              /\ completedRpcs' = completedRpcs
              /\ numOutstandingRpcs' = numOutstandingRpcs
              /\ nextRpcId' = nextRpcId]_allVars

\* C15 witness: both kinds of invalid request were answered while accepted
\* RPCs were outstanding, some of them waiting.
C15_Witness ==
    /\ \E r \in ServerRpcIds : serverRpcs[r].reply = "STATUS_MESSAGE_TOO_SHORT"
    /\ \E r \in ServerRpcIds :
         serverRpcs[r].reply = "STATUS_UNIMPLEMENTED_REQUEST"
    /\ waitingRpcs # <<>>
    /\ numOutstandingRpcs = Cardinality(AcceptedRpcs)

C17_RepliesInCompletionOrder ==
    LET sent == SelectSeq(replyLog, LAMBDA r : serverRpcs[r].kind = "valid")
    IN  /\ Len(sent) <= Len(pushLog)
        /\ \A i \in 1..Len(sent) : sent[i] = pushLog[i]

\* C17 witness: two RPCs were replied to in the order of their completion,
\* which is the reverse of the order in which handleRpc got them.
C17_Witness ==
    \E i, j \in 1..Len(replyLog) :
        /\ i < j
        /\ replyLog[i] > replyLog[j]
        /\ replyLog[i] \in AcceptedRpcs
        /\ replyLog[j] \in AcceptedRpcs

\* ------------------------------------------------------ handshake claims
\* A step in which the client's recvfrom returned a datagram.
ClientRecvStep ==
    /\ clientHs.pc = "io"
    /\ clientHs'.pc # "io"
    /\ udpToClient' # udpToClient
\* The datagram of such a step.
ClientRecvd == CHOOSE d \in udpToClient \ udpToClient' : TRUE

\* C18: a tuple the client receives is accepted exactly if its nonce is the
\* nonce of the tuple of the current attempt, and the queue pair is plumbed
\* with the accepted tuple only.  Any other tuple leaves the attempt
\* running: same attempt, same outgoing tuple, retry counter unchanged, no
\* request sent again, queue pair not plumbed.
C18_AcceptIffNonceMatches ==
    [][/\ ClientRecvStep /\ ClientRecvd.size = "ok" =>
            IF ClientRecvd.nonce = clientHs.outgoing.nonce
            THEN /\ clientHs'.result = "connected"
                 /\ clientHs'.qp = "plumbed"
                 /\ clientHs'.peer = ClientRecvd
            ELSE /\ clientHs'.pc = "time"
                 /\ clientHs'.result = "none"
                 /\ clientHs'.qp = "init"
                 /\ clientHs'.i = clientHs.i
                 /\ clientHs'.retries = clientHs.retries
                 /\ clientHs'.outgoing = clientHs.outgoing
                 /\ clientHs.haveSent =>
                      /\ clientHs'.sent = clientHs.sent
                      /\ udpToServer' = udpToServer
       /\ clientHs'.qp = "plumbed" =>
            /\ clientHs'.peer.size = "ok"
            /\ clientHs'.peer.nonce = clientHs'.outgoing.nonce
            /\ clientHs'.peer = clientHs'.incoming]_allVars

\* C18 witness: in a later attempt, after its request went out, the client
\* has just dropped a well-formed tuple with another nonce and goes on
\* waiting.
C18_Witness ==
    /\ clientHs.pc = "time"
    /\ clientHs.i > 0
    /\ clientHs.haveSent
    /\ clientHs.incoming.size = "ok"
    /\ clientHs.incoming.nonce # clientHs.outgoing.nonce

C20_ServerHandshake ==
    /\ Len(serverQps) = hsStats.wellFormed
    /\ \A q \in 1..Len(serverQps) :
         LET qp == serverQps[q]
         IN  /\ qp.qpn = q
             /\ qp.srq = "serverSrq"
             /\ qp.peer = QueuePairTuple("client", 1, qp.peer.nonce)
             /\ qp.reply \in {NoTuple,
                               QueuePairTuple("server", q, qp.peer.nonce)}
             /\ qp.reply # NoTuple <=> q \in DOMAIN queuePairMap
             /\ qp.reply = NoTuple <=> qp.state \in {"deleted", "init"}
             /\ qp.reply # NoTuple <=> qp.state = "plumbed"
    /\ \A k \in DOMAIN queuePairMap :
         k \in 1..Len(serverQps) /\ queuePairMap[k] = k
    /\ \A d \in udpToClient :
         d.lid = "server" =>
           d.qpn \in DOMAIN queuePairMap /\ serverQps[d.qpn].reply = d

\* C20 witness: two requests of the client were answered and their queue
\* pairs registered, a reply could not be sent for another, and a datagram
\* of the wrong size was dropped.
C20_Witness ==
    /\ Cardinality(DOMAIN queuePairMap) >= 2
    /\ hsStats.sendFailed >= 1
    /\ hsStats.badSize >= 1

\* ------------------------------------------------- client error handling
\* The poller takes a completion from the client receive queue.
ClientRxPolled == clientRxCq # <<>> /\ clientRxCq' = Tail(clientRxCq)

\* C23: when the poller takes a client receive completion whose status is
\* not success while an RPC is outstanding, it posts the buffer on the
\* client SRQ again, and an outstanding ClientRpc becomes FAILED and leaves
\* outstandingRpcs.
C23_FailedRxFailsOwner ==
    [][(/\ ClientRxPolled
        /\ Head(clientRxCq).status # "SUCCESS"
        /\ outstandingRpcs # <<>>)
       => /\ Head(clientRxCq).bd \in Range(clientSrq')
          /\ \E r \in Range(outstandingRpcs) :
                /\ rpcs'[r].state = "FAILED"
                /\ r \notin Range(outstandingRpcs')]_allVars

\* The transport with every transmit completion's status set to success.
AllTxSucceeded ==
    [Transport EXCEPT !.txCq = [i \in 1..Len(@) |->
                                  [@[i] EXCEPT !.status = "SUCCESS"]]]

\* C25: when getTransmitBuffer drains the transmit completion queue, a
\* completion whose status is not success gives its buffer back to the
\* free list exactly as a successful one does: the free list and the
\* buffer handed out are those of the same drain with every status
\* success, every drained buffer is free or handed out, and no ClientRpc
\* changes its state or its place in outstandingRpcs or clientSendQueue.
C25_FailedTxReclaimed ==
    (freeTxBuffers = <<>> /\ commonTxCq # <<>>) =>
        LET d == drainTxCompletions(Transport)
            g == getTransmitBuffer(Transport)
            ok == getTransmitBuffer(AllTxSucceeded)
        IN  /\ d.freeTx = drainTxCompletions(AllTxSucceeded).freeTx
            /\ Range(d.freeTx)
                 = {commonTxCq[i].bd : i \in 1..Len(commonTxCq)}
            /\ d.txCq = <<>>
            /\ ~g.blocked
            /\ g.freeTx = ok.freeTx
            /\ g.txBd = ok.txBd
            /\ g.rpcs = rpcs
            /\ g.outstanding = outstandingRpcs
            /\ g.queue = clientSendQueue
            /\ g.num = numUsedClientSrqBuffers

\* C25 witness: no transmit buffer is free, a transmission has failed and
\* its completion waits to be drained, and an RPC is outstanding.
C25_Witness ==
    /\ freeTxBuffers = <<>>
    /\ \E i \in 1..Len(commonTxCq) : commonTxCq[i].status = "FAILED"
    /\ outstandingRpcs # <<>>

\* C30: when the poller matches a reply to an outstanding ClientRpc, the
\* RPC leaves outstandingRpcs and becomes RESPONSE_RECEIVED; if
\* numUsedClientSrqBuffers >= MAX_SHARED_RX_QUEUE_DEPTH / 2 (unsigned) at
\* that moment the payload is copied and the buffer is posted on the client
\* SRQ in the same step, otherwise the buffer is attached to the response
\* and is not posted.
C30_CopyIffHalfInUse ==
    [][(/\ ClientRxPolled
        /\ Head(clientRxCq).status = "SUCCESS"
        /\ FirstMatch(Transport, Head(clientRxCq).nonce) # 0)
       => LET wc == Head(clientRxCq)
              r == outstandingRpcs[FirstMatch(Transport, wc.nonce)]
          IN  /\ r \notin Range(outstandingRpcs')
              /\ rpcs'[r].state = "RESPONSE_RECEIVED"
              /\ IF ~ULess(numUsedClientSrqBuffers,
                           MAX_SHARED_RX_QUEUE_DEPTH \div 2)
                 THEN /\ rpcs'[r].response = "copied"
                      /\ wc.bd \in Range(clientSrq')
                 ELSE /\ rpcs'[r].response = "chunk"
                      /\ rpcs'[r].bd = wc.bd
                      /\ wc.bd \notin Range(clientSrq')]_allVars

\* C30 witness: one reply was matched with fewer than half of the buffers
\* counted in use and holds its buffer, another was matched with at least
\* half in use and was copied.
C30_Witness ==
    \E r, q \in RpcIds :
        /\ rpcs[r].state = "RESPONSE_RECEIVED"
        /\ rpcs[r].response = "chunk"
        /\ rpcs[q].state = "RESPONSE_RECEIVED"
        /\ rpcs[q].response = "copied"

\* C28: every accepted RPC whose worker thread has been created was given
\* an id by handleRpc before, and ids increase strictly in the order in
\* which handleRpc accepted the RPCs; this includes the RPCs that waited on
\* waitingRpcs first.
C28_IdsBeforeLaunch ==
    /\ \A r \in Range(launchLog) : serverRpcs[r].id # -1
    /\ \A a, b \in AcceptedRpcs \cap Range(launchLog) :
         a < b => serverRpcs[a].id < serverRpcs[b].id

\* Workers inside the critical section of Worker::sendReply.
PushingWorkers == {r \in ServerRpcIds : serverRpcs[r].phase = "pushing"}
\* The RPCs poll has popped and replied to, in that order.
PoppedAndReplied == SelectSeq(replyLog, LAMBDA r : r \in Range(pushLog))
\* The RPC poll has popped and not yet replied to.
PoppedInHand == IF pollPc = "unlocked" THEN <<pollRpc>> ELSE <<>>

\* At most one thread holds the mutex, and nothing pushed is lost or
\* doubled.
CompletedRpcsIntact ==
    /\ completedRpcsMutex = "worker" <=> Cardinality(PushingWorkers) = 1
    /\ Cardinality(PushingWorkers) <= 1
    /\ completedRpcsMutex = "dispatch" <=> pollPc = "locked"
    /\ pushLog = PoppedAndReplied \o PoppedInHand \o completedRpcs
    /\ \A r \in ServerRpcIds : Occurrences(pushLog, r) <= 1
\* completedRpcs is touched only under the mutex, and the dispatcher
\* launches and replies without it.
CompletedRpcsGuarded ==
    /\ Len(completedRpcs') > Len(completedRpcs)
         => completedRpcsMutex = "worker"
    /\ Len(completedRpcs') < Len(completedRpcs)
         => completedRpcsMutex = "dispatch"
    /\ (pollPc = "locked" /\ pollPc' # "locked")
         => completedRpcsMutex = "dispatch"
    /\ (LaunchStep \/ Len(replyLog') > Len(replyLog))
         => completedRpcsMutex # "dispatch" /\ completedRpcsMutex' # "dispatch"

\* C29: completedRpcs is read or changed only by the thread that holds
\* completedRpcsMutex (a worker to push, the dispatcher to test for empty
\* and to pop); at most one thread holds it; the dispatcher does not hold
\* it when it creates a worker thread or sends a reply; and every pushed
\* RPC is, exactly once and in push order, either replied to by poll, in
\* poll's hands, or still on completedRpcs.
C29_MutexDiscipline ==
    []CompletedRpcsIntact /\ [][CompletedRpcsGuarded]_allVars

\* C29 witness: the dispatcher has popped an RPC and works on it without
\* the mutex while a worker holds the mutex to push behind another
\* completed RPC.
C29_Witness ==
    /\ pollPc = "unlocked"
    /\ completedRpcsMutex = "worker"
    /\ completedRpcs # <<>>
    /\ PushingWorkers # {}

\* C21: a queue pair that the server handler created and did not answer
\* for, because plumb failed or the reply could not be sent, has been
\* deleted and is not in queuePairMap.
C21_FailedAttemptDestroysQp ==
    \A q \in 1..Len(serverQps) :
        serverQps[q].reply = NoTuple =>
            /\ serverQps[q].state = "deleted"
            /\ q \notin DOMAIN queuePairMap

\* -------------------------------------------------------------- send path
\* A request Buffer is the sequence of its chunks, each an address and a
\* length.  The first chunk of the caller's request is anywhere, the
\* others are one byte each and outside the log memory.
Chunk(addr, len) == [addr |-> addr, len |-> len]
Requests ==
    {<<Chunk(a, l)>> \o [i \in 1..k |-> Chunk(0, 1)] :
        a \in 1..MaxAddr, l \in 1..MaxChunkLen, k \in 0..(MaxChunks - 1)}

\* Buffer::getTotalLength
RECURSIVE getTotalLength(_)
getTotalLength(buf) ==
    IF buf = <<>> THEN 0 ELSE Head(buf).len + getTotalLength(Tail(buf))

\* new(request, PREPEND) Header(nonce): the header becomes a chunk of its
\* own in front of the request.
prependHeader(buf) == <<Chunk(0, HeaderBytes)>> \o buf

\* The registered log memory as the transport records it.
LogMemory == [base |-> logMemoryBase, bytes |-> logMemoryBytes]

\* ClientRpc::tryZeroCopy on the request with its header in front: what it
\* posts (the bytes before the second chunk copied into a transmit buffer,
\* the second chunk as a second scatter-gather element), or NoMessage for
\* its result false.
tryZeroCopy(log, buf) ==
    IF /\ log.base # 0
       /\ Len(buf) = 2
       /\ buf[2].addr >= log.base
       /\ buf[2].addr + buf[2].len < log.base + log.bytes
    THEN [sges |-> 2, copied |-> getTotalLength(buf) - buf[2].len]
    ELSE NoMessage

\* What ClientRpc::sendOrQueue posts for a request it admits.
postRequest(log, req) ==
    LET buf == prependHeader(req)
        z == tryZeroCopy(log, buf)
    IN  IF z # NoMessage
        THEN z
        ELSE [sges |-> 1, copied |-> getTotalLength(buf)]

\* A bug variant: the length is tested after the RPC was created and sent.
clientSendCheckAfter(t, req, nonce) ==
    LET r == Len(t.rpcs) + 1
        sent == sendOrQueue([t EXCEPT !.rpcs = Append(@, NewClientRpc(nonce))],
                            r)
    IN  [sent EXCEPT !.thrown = getTotalLength(req) > MAX_RPC_SIZE]

\* InfRCSession::clientSend on a request of any length.
clientSend(t, req, nonce) ==
    IF getTotalLength(req) > MAX_RPC_SIZE
    THEN [t EXCEPT !.thrown = TRUE]
    ELSE LET r == Len(t.rpcs) + 1
         IN  sendOrQueue([t EXCEPT !.rpcs = Append(@, NewClientRpc(nonce))],
                         r)

\* A clientSend call with its request.
ClientSendRequest ==
    /\ ~pollActive
    /\ \E req \in Requests, nonce \in Nonces :
         LET t == clientSend(Transport, req, nonce)
             sent == Len(t.outstanding) > Len(outstandingRpcs)
         IN  /\ Len(t.rpcs) <= MaxRpcs
             /\ Install(t)
             /\ sendLog' = [seq |-> 1 - sendLog.seq,
                            req |-> req,
                            outcome |-> IF t.thrown THEN "exception"
                                        ELSE IF sent THEN "sent"
                                        ELSE "queued",
                            posted |-> IF sent
                                       THEN postRequest(LogMemory, req)
                                       ELSE NoMessage]
    /\ UNCHANGED <<clientRxCq, pollActive, rxDelivered, rxStray, rxFailed,
                   logMemoryBase, logMemoryBytes>>

\* The application registers its log memory with the transport, once.
RegisterMemory ==
    /\ logMemoryBase = 0
    /\ logMemoryBase' = LogBase
    /\ logMemoryBytes' = LogBytes
    /\ UNCHANGED <<vars, sendLog>>

\* clientSend calls with requests of every shape; transmissions complete,
\* no reply arrives.
NextSend ==
    \/ ClientSendRequest /\ UNCHANGED <<wmVars, hsVars, srvVars, memberVars>>
    \/ RegisterMemory /\ UNCHANGED <<wmVars, hsVars, srvVars, memberVars>>
    \/ HcaTxComplete /\ UNCHANGED <<wmVars, hsVars, sendVars, srvVars, memberVars>>

SpecSend == Init /\ [][NextSend]_allVars

\* A step that is a clientSend call, with or without an exception.
ClientSendCall == sendLog'.seq # sendLog.seq

\* C22: a clientSend call whose request is longer than MAX_RPC_SIZE ends in
\* an exception and in nothing else: no ClientRpc is created, nothing is
\* posted, no transmit buffer leaves the free list, and
\* numUsedClientSrqBuffers, outstandingRpcs and clientSendQueue are as
\* before; a call with a request within the limit raises nothing.
C22_OversizeRejected ==
    [][ClientSendCall =>
         IF getTotalLength(sendLog'.req) > MAX_RPC_SIZE
         THEN /\ sendLog'.outcome = "exception"
              /\ sendLog'.posted = NoMessage
              /\ UNCHANGED <<rpcs, txPosted, wire, freeTxBuffers, commonTxCq,
                             numUsedClientSrqBuffers, outstandingRpcs,
                             clientSendQueue>>
         ELSE /\ sendLog'.outcome \in {"sent", "queued"}
              /\ Len(rpcs') = Len(rpcs) + 1]_allVars

\* C22 witness: a request longer than MAX_RPC_SIZE was refused while an
\* RPC was outstanding and a transmit buffer was free.
C22_Witness ==
    /\ sendLog.outcome = "exception"
    /\ getTotalLength(sendLog.req) > MAX_RPC_SIZE
    /\ outstandingRpcs # <<>>
    /\ freeTxBuffers # <<>>

\* The chunk lies fully inside the log memory [base, base + bytes).
InsideLogMemory(c) ==
    /\ c.addr >= logMemoryBase
    /\ c.addr + c.len <= logMemoryBase + logMemoryBytes

\* C26: a request that is sent is posted as two scatter-gather elements
\* with only the bytes in front of its second chunk copied exactly if log
\* memory is registered, the request (with its header) has exactly two
\* chunks and the second chunk lies fully inside [base, base + bytes);
\* otherwise the whole message is copied and posted as one element; one
\* transmit buffer is taken either way.
C26_ZeroCopyIff ==
    [][(ClientSendCall /\ sendLog'.outcome = "sent") =>
         LET buf == prependHeader(sendLog'.req)
             eligible == /\ logMemoryBase # 0
                         /\ Len(buf) = 2
                         /\ InsideLogMemory(buf[2])
         IN  /\ IF eligible
                THEN sendLog'.posted =
                       [sges |-> 2,
                        copied |-> getTotalLength(buf) - buf[2].len]
                ELSE sendLog'.posted =
                       [sges |-> 1, copied |-> getTotalLength(buf)]
             /\ Len(txPosted') = Len(txPosted) + 1
             /\ Len(freeTxBuffers') + Len(commonTxCq')
                  = Len(freeTxBuffers) + Len(commonTxCq) - 1]_allVars

\* ----------------------------------------------------------- cancellation
\* Cancelling ClientRpc r: it becomes CANCELLED and leaves the list it was
\* on; its request, if sent, stays on the wire.
cancel(t, r) ==
    [t EXCEPT !.rpcs[r].state = "CANCELLED",
              !.outstanding = SelectSeq(@, LAMBDA x : x # r),
              !.queue = SelectSeq(@, LAMBDA x : x # r)]

\* The caller cancels an RPC that has not finished.
CancelRpc ==
    /\ ~pollActive
    /\ \E r \in 1..Len(rpcs) :
         /\ r \in Range(outstandingRpcs) \cup Range(clientSendQueue)
         /\ Install(cancel(Transport, r))
    /\ UNCHANGED <<clientRxCq, pollActive, rxDelivered, rxStray, rxFailed>>

\* The client side with cancellation; every receive completion is a
\* server's reply.
NextCancel ==
    \/ ClientSend /\ UNCHANGED <<wmVars, hsVars, sendVars, srvVars, memberVars>>
    \/ CancelRpc /\ UNCHANGED <<wmVars, hsVars, sendVars, srvVars, memberVars>>
    \/ PollClientRx /\ UNCHANGED <<wmVars, hsVars, sendVars, srvVars, memberVars>>
    \/ PollReturn /\ UNCHANGED <<wmVars, hsVars, sendVars, srvVars, memberVars>>
    \/ DestroyResponse /\ UNCHANGED <<wmVars, hsVars, sendVars, srvVars, memberVars>>
    \/ HcaRxReply /\ UNCHANGED <<wmVars, hsVars, sendVars, srvVars, memberVars>>
    \/ HcaTxComplete /\ UNCHANGED <<wmVars, hsVars, sendVars, srvVars, memberVars>>

SpecCancel == Init /\ [][NextCancel]_allVars

CancelledRpcs == {r \in RpcIds : rpcs[r].state = "CANCELLED"}
\* The nonce of a cancelled RPC that no outstanding RPC shares.
LateNonce(n) ==
    /\ \E r \in CancelledRpcs : rpcs[r].nonce = n
    /\ \A r \in Range(outstandingRpcs) : rpcs[r].nonce # n
\* A cancelled RPC is on no list, was never completed, and stays cancelled.
CancelledIsTerminal ==
    \A r \in CancelledRpcs :
        /\ r \notin Range(outstandingRpcs) \cup Range(clientSendQueue)
        /\ rpcs[r].finished = 0
        /\ rpcs[r].response = "none"
        /\ rpcs'[r] = rpcs[r]
\* The poller drops the reply to a cancelled RPC and changes no RPC.
LateReplyDropped ==
    (ClientRxPolled /\ LateNonce(Head(clientRxCq).nonce))
        => UNCHANGED <<rpcs, outstandingRpcs, clientSendQueue>>
\* A cancel step marks the RPC and takes it off its list.
CancelUnlinks ==
    \A r \in RpcIds :
        (rpcs[r].state # "CANCELLED" /\ rpcs'[r].state = "CANCELLED")
            => /\ r \in Range(outstandingRpcs) \cup Range(clientSendQueue)
               /\ r \notin Range(outstandingRpcs') \cup Range(clientSendQueue')
               /\ \A q \in RpcIds \ {r} : rpcs'[q] = rpcs[q]

\* C27: cancelling a ClientRpc marks it CANCELLED and takes it off
\* outstandingRpcs or clientSendQueue; a reply polled afterwards that
\* carries its nonce (and the nonce of no outstanding RPC) completes no RPC
\* and is dropped: no RPC changes its state or its list, and the cancelled
\* RPC stays CANCELLED and unfinished.
C27_LateReplyDropped ==
    [][CancelUnlinks /\ CancelledIsTerminal /\ LateReplyDropped]_allVars

\* C27 witness: an RPC was cancelled after its request went out, its reply
\* arrived and was polled while another RPC was outstanding, and no RPC
\* was completed by it.
C27_Witness ==
    /\ CancelledRpcs # {}
    /\ rxDelivered >= 1
    /\ clientRxCq = <<>>
    /\ outstandingRpcs # <<>>
    /\ \A r \in RpcIds : rpcs[r].state # "RESPONSE_RECEIVED"

\* ---------------------------------------------------- server receive path
\* The transport's variables that the server's receive path leaves alone.
clientVars ==
    <<rpcs, clientSendQueue, outstandingRpcs, numUsedClientSrqBuffers,
      clientSrq, clientRxCq, freeTxBuffers, commonTxCq, txPosted, wire,
      pollActive, rxDelivered, rxStray, rxFailed>>

\* The server after one client has connected: the state SpecHs reaches when
\* the first request is answered and the reply received.
ServerConnected ==
    LET request == QueuePairTuple("client", 1, 1)
        reply == QueuePairTuple("server", 1, 1)
    IN  /\ clientHs = [pc |-> "done", i |-> 0, haveSent |-> TRUE,
                       usTimeout |-> QP_EXCHANGE_USEC_TIMEOUT,
                       outgoing |-> request, incoming |-> reply,
                       peer |-> reply, qp |-> "plumbed",
                       result |-> "connected", sent |-> 1, retries |-> 0]
        /\ udpToServer = {}
        /\ udpToClient = {}
        /\ serverQps = <<[qpn |-> 1, srq |-> "serverSrq",
                          state |-> "plumbed", peer |-> request,
                          reply |-> reply]>>
        /\ queuePairMap = MapPut(<<>>, 1, 1)
        /\ hsStats = [wellFormed |-> 1, badSize |-> 0, sendFailed |-> 0,
                      strays |-> 0, bads |-> 0]

InitServer ==
    /\ TransportConstructed
    /\ WorkerManagerConstructed
    /\ ServerConnected
    /\ SendPathConstructed
    /\ MembershipServiceTestConstructed

\* The server side of the transport as one record: the WorkerManager, the
\* server SRQ, the PayloadChunks of requests, the registry.
Server ==
    [m |-> Manager, srq |-> serverSrq, chunks |-> serverChunks,
     map |-> queuePairMap]

\* postSrqReceiveAndKickTransmit(serverSrq, bd)
postServerSrq(s, bd) ==
    [s EXCEPT !.srq = postSrqReceiveAndKickTransmit(
                          [Transport EXCEPT !.serverSrq = s.srq],
                          "serverSrq", bd).serverSrq]

\* The ServerRpc r is deleted: the PayloadChunk of its request gives the
\* buffer back.
deleteServerRpc(s, r) ==
    [postServerSrq(s, s.chunks[r]) EXCEPT !.chunks[r] = 0]

\* The request of completion wc becomes a ServerRpc and goes to handleRpc;
\* when handleRpc has replied at once the ServerRpc is already gone.
receiveRequest(s, wc, ok) ==
    LET r == Len(s.m.rpcs) + 1
        n == [s EXCEPT !.m.rpcs = Append(@, NewServerRpc(wc.kind)),
                       !.chunks = Append(@, wc.bd)]
        h == [n EXCEPT !.m = handleRpc(n.m, r, ok)]
    IN  IF h.m.rpcs[r].phase = "replied" THEN deleteServerRpc(h, r) ELSE h

\* A bug variant: the queue pair is taken from the registry without looking
\* whether it is there.
pollServerRxNoLookup(s, wc, ok) ==
    IF wc.status # "SUCCESS"
    THEN postServerSrq(s, wc.bd)
    ELSE receiveRequest(s, wc, ok)

\* Poller::poll, its server part, on completion wc.
pollServerRx(s, wc, ok) ==
    IF wc.qp_num \notin DOMAIN s.map
    THEN s
    ELSE IF wc.status # "SUCCESS"
    THEN postServerSrq(s, wc.bd)
    ELSE receiveRequest(s, wc, ok)

InstallServer(s) ==
    /\ InstallManager(s.m)
    /\ serverSrq' = s.srq
    /\ serverChunks' = s.chunks
    /\ queuePairMap' = s.map

\* A queue pair number that no registered queue pair has.
UnknownQpn == Len(serverQps) + 1

\* The HCA receives a message (or fails to) into the buffer at the head of
\* the server SRQ and queues the completion.
HcaServerRx ==
    /\ serverSrq # <<>>
    /\ \E qpn \in DOMAIN queuePairMap \cup {UnknownQpn},
          status \in {"SUCCESS", "FAILED"},
          kind \in RequestKinds :
         /\ status = "FAILED" => kind = "valid"
         /\ serverRxCq' = Append(serverRxCq,
                                 [bd |-> Head(serverSrq), status |-> status,
                                  qp_num |-> qpn, kind |-> kind])
    /\ serverSrq' = Tail(serverSrq)
    /\ UNCHANGED <<clientVars, wmVars, hsVars, sendVars, serverChunks,
                   memberVars>>

\* Poller::poll, its server part: at most one completion per call, on the
\* dispatch thread.
PollServerRx ==
    /\ pollPc = "idle"
    /\ serverRxCq # <<>>
    /\ Len(serverRpcs) < MaxServerRpcs
    /\ \E ok \in BOOLEAN :
         InstallServer(pollServerRx(Server, Head(serverRxCq), ok))
    /\ serverRxCq' = Tail(serverRxCq)
    /\ UNCHANGED <<clientVars, completedRpcsMutex, pollPc, pollRpc, clientHs,
                   udpToServer, udpToClient, serverQps, hsStats, sendVars,
                   memberVars>>

\* WorkerManager::poll replies for the RPC it popped; ServerRpc::sendReply
\* deletes the ServerRpc.
PollPostProcessDelete ==
    /\ PollPostProcess
    /\ serverSrq' = deleteServerRpc(Server, pollRpc).srq
    /\ serverChunks' = deleteServerRpc(Server, pollRpc).chunks
    /\ UNCHANGED <<clientVars, hsVars, sendVars, serverRxCq, memberVars>>

\* A connected server: requests arrive on the server SRQ, workers serve
\* them, the dispatcher replies.
NextServer ==
    \/ HcaServerRx
    \/ PollServerRx
    \/ (\E r \in 1..Len(serverRpcs) : WorkerMainService(r))
         /\ UNCHANGED <<vars, hsVars, sendVars, srvVars, memberVars>>
    \/ (\E r \in 1..Len(serverRpcs) : WorkerSendReplyLock(r))
         /\ UNCHANGED <<vars, hsVars, sendVars, srvVars, memberVars>>
    \/ (\E r \in 1..Len(serverRpcs) : WorkerSendReplyUnlock(r))
         /\ UNCHANGED <<vars, hsVars, sendVars, srvVars, memberVars>>
    \/ PollLock /\ UNCHANGED <<vars, hsVars, sendVars, srvVars, memberVars>>
    \/ PollEmpty /\ UNCHANGED <<vars, hsVars, sendVars, srvVars, memberVars>>
    \/ PollPop /\ UNCHANGED <<vars, hsVars, sendVars, srvVars, memberVars>>
    \/ PollPostProcessDelete

SpecServer == InitServer /\ [][NextServer]_allVars

\* The poller takes a completion from the server receive queue.
ServerRxPolled == serverRxCq # <<>> /\ serverRxCq' = Tail(serverRxCq)
\* The receive buffers the server SRQ was seeded with.
ServerRxBuffers == 1..MAX_SHARED_RX_QUEUE_DEPTH

\* C24: when the poller takes a server receive completion whose qp_num is
\* not in queuePairMap, it constructs no ServerRpc, hands nothing to the
\* WorkerManager (no RPC is counted, launched, queued or replied to), and
\* leaves queuePairMap as it was.
C24_UnknownQpDropped ==
    [][(ServerRxPolled /\ Head(serverRxCq).qp_num \notin DOMAIN queuePairMap)
         => UNCHANGED <<wmVars, serverChunks, queuePairMap>>]_allVars

\* C24 witness: a completion of an unknown queue pair was polled and
\* dropped (its buffer is neither posted, nor in a completion, nor held by
\* a request), and a request of the registered queue pair became a
\* ServerRpc.
C24_Witness ==
    /\ \E b \in ServerRxBuffers :
         /\ b \notin Range(serverSrq)
         /\ \A i \in 1..Len(serverRxCq) : serverRxCq[i].bd # b
         /\ b \notin Range(serverChunks)
    /\ serverRpcs # <<>>

\* ------------------------------------------- construction and the counter
\* Nothing has happened since the constructor returned.
JustConstructed == rpcs = <<>> /\ rxDelivered = 0

\* C33: when the constructor returns, MAX_SHARED_RX_QUEUE_DEPTH receive
\* buffers are posted on the server SRQ and as many others on the client
\* SRQ, numUsedClientSrqBuffers is 0, outstandingRpcs and clientSendQueue
\* are empty, and all MAX_TX_QUEUE_DEPTH transmit buffers are free.
C33_ConstructedState ==
    JustConstructed =>
        /\ Len(serverSrq) = MAX_SHARED_RX_QUEUE_DEPTH
        /\ Len(clientSrq) = MAX_SHARED_RX_QUEUE_DEPTH
        /\ Range(serverSrq) \cup Range(clientSrq) = RxBuffers
        /\ numUsedClientSrqBuffers = 0
        /\ outstandingRpcs = <<>>
        /\ clientSendQueue = <<>>
        /\ Len(freeTxBuffers) = MAX_TX_QUEUE_DEPTH
        /\ Range(freeTxBuffers) = TxBuffers
        /\ commonTxCq = <<>>
        /\ txPosted = <<>>

\* C33 witness: the transport as its constructor left it, both SRQs full.
C33_Witness ==
    /\ JustConstructed
    /\ clientSrq # <<>>
    /\ serverSrq # <<>>
    /\ clientRxCq = <<>>

C36_QueuedOnlyWhenFull ==
    clientSendQueue # <<>>
        => numUsedClientSrqBuffers = MAX_SHARED_RX_QUEUE_DEPTH

\* C37: the client receive buffers are conserved: the buffers posted on the
\* client SRQ, those on loan in response buffers and those of completions
\* not yet polled are MAX_SHARED_RX_QUEUE_DEPTH together in every state.
C37_ClientRxConserved ==
    Len(clientSrq) + Cardinality(LoanedRpcs) + Len(clientRxCq)
        = MAX_SHARED_RX_QUEUE_DEPTH

\* C38: the server receive buffers are conserved: each of them is posted on
\* the server SRQ, in a completion not yet polled, or held by the request
\* of a ServerRpc that has not been deleted.
C38_ServerRxConserved ==
    \A b \in ServerRxBuffers :
        \/ b \in Range(serverSrq)
        \/ \E i \in 1..Len(serverRxCq) : serverRxCq[i].bd = b
        \/ b \in Range(serverChunks)

\* C39: the bytes copied into a transmit buffer for a request that
\* clientSend accepted and sent, header and payload together, are never
\* more than the buffer's MAX_RPC_SIZE bytes.
C39_CopyFitsTxBuffer ==
    sendLog.outcome = "sent" => sendLog.posted.copied <= MAX_RPC_SIZE

\* ------------------------------------------------- a worker's RPC, end to end
\* The RPCs handed to a worker thread.
ExecutedRpcs == AcceptedRpcs \cap Range(launchLog)
\* No RPC of a worker is replied to or pushed twice, and one that was
\* replied to had been serviced and pushed.
WorkerRpcRepliedOnce ==
    \A r \in ExecutedRpcs :
        /\ Occurrences(replyLog, r) <= 1
        /\ Occurrences(pushLog, r) <= 1
        /\ r \in Range(replyLog)
             => /\ r \in Range(pushLog)
                /\ serverRpcs[r].reply = "STATUS_OK"
                /\ serverRpcs[r].phase = "replied"
\* The reply of a worker's RPC is sent by poll, for the RPC it popped,
\* after the worker has returned from the service and pushed.
WorkerRpcRepliedByPoll ==
    \A r \in ExecutedRpcs :
        Occurrences(replyLog', r) > Occurrences(replyLog, r)
            => /\ pollPc = "unlocked"
               /\ pollRpc = r
               /\ serverRpcs[r].phase = "popped"
               /\ serverRpcs[r].reply = "STATUS_OK"
               /\ r \in Range(pushLog)
               /\ r \notin PushingWorkers
\* A worker's RPC is replied to in the end.
WorkerRpcReplied ==
    \A r \in 1..MaxServerRpcs :
        (r \in Range(launchLog)) ~> (Occurrences(replyLog, r) = 1)

\* C32: for every accepted RPC that a worker executes, sendReply is called
\* exactly once (never twice, and once in the end), by the dispatch thread
\* inside poll, after the worker's Service::handleRpc call has returned and
\* the worker has pushed the RPC onto completedRpcs; a worker pushes its
\* RPC at most once.
C32_ReplyOnceAfterPush ==
    []WorkerRpcRepliedOnce /\ [][WorkerRpcRepliedByPoll]_allVars
        /\ WorkerRpcReplied

\* C32 witness: one worker's RPC has been replied to while a second one,
\* launched by poll from waitingRpcs, has been pushed and waits for poll.
C32_Witness ==
    \E r, q \in ExecutedRpcs :
        /\ serverRpcs[r].phase = "replied"
        /\ Occurrences(replyLog, r) = 1
        /\ q > r
        /\ serverRpcs[q].phase = "completed"
        /\ completedRpcs = <<q>>

\* Workers launched that have not yet pushed their RPC.
WorkersNotPushed == Range(launchLog) \ Range(pushLog)
\* The counter is the number of RPCs waiting, with a worker, or completed;
\* inside poll the RPC in the dispatcher's hands is counted as well until
\* its reply is sent.
OutstandingCounted ==
    /\ numOutstandingRpcs >= 0
    /\ numOutstandingRpcs
         = Len(waitingRpcs) + Cardinality(WorkersNotPushed)
           + Len(completedRpcs) + Len(PoppedInHand)
    /\ pollPc \in {"idle", "locked", "relock"} => PoppedInHand = <<>>
\* The counter goes down by one, in the step that sends the reply of one
\* accepted RPC, and every such reply takes it down.
OutstandingDecrement ==
    LET newReplies == {r \in AcceptedRpcs :
                         Occurrences(replyLog', r) > Occurrences(replyLog, r)}
    IN  /\ numOutstandingRpcs' < numOutstandingRpcs
             => /\ numOutstandingRpcs' = numOutstandingRpcs - 1
                /\ newReplies = {pollRpc}
                /\ Len(replyLog') = Len(replyLog) + 1
        /\ newReplies # {} => numOutstandingRpcs' = numOutstandingRpcs - 1

NextTx ==
    \/ ClientSend /\ UNCHANGED <<wmVars, hsVars, sendVars, srvVars, memberVars>>
    \/ PollClientRx /\ UNCHANGED <<wmVars, hsVars, sendVars, srvVars, memberVars>>
    \/ PollReturn /\ UNCHANGED <<wmVars, hsVars, sendVars, srvVars, memberVars>>
    \/ DestroyResponse /\ UNCHANGED <<wmVars, hsVars, sendVars, srvVars, memberVars>>
    \/ HcaRxReply /\ UNCHANGED <<wmVars, hsVars, sendVars, srvVars, memberVars>>
    \/ HcaTxComplete /\ UNCHANGED <<wmVars, hsVars, sendVars, srvVars, memberVars>>

FairnessTx ==
    WF_allVars(HcaTxComplete /\ UNCHANGED <<wmVars, hsVars, sendVars, srvVars, memberVars>>)

SpecTx == Init /\ [][NextTx]_allVars /\ FairnessTx

\* The buffers of the completions a getTransmitBuffer call would drain.
DrainedBy(g) ==
    {commonTxCq[i].bd : i \in 1..(Len(commonTxCq) - Len(g.txCq))}
\* A getTransmitBuffer call in this state would spin: nothing is free and
\* nothing has completed.
TxStarved == freeTxBuffers = <<>> /\ commonTxCq = <<>>

\* The statement as the specification words it: at the return the free
\* list is one buffer shorter than at the call.
C35_FreeListShrinksByOne ==
    LET g == getTransmitBuffer(Transport)
    IN  ~g.blocked => Len(g.freeTx) = Len(freeTxBuffers) - 1

\* What a getTransmitBuffer call does in this state.
GetTransmitBufferEffect ==
    LET g == getTransmitBuffer(Transport)
    IN  /\ freeTxBuffers # <<>> => g.txCq = commonTxCq
        /\ g.blocked <=> TxStarved
        /\ ~g.blocked =>
              /\ g.txBd \in Range(freeTxBuffers) \cup DrainedBy(g)
              /\ g.txBd \notin Range(g.freeTx)
              /\ Range(g.freeTx) \cup {g.txBd}
                   = Range(freeTxBuffers) \cup DrainedBy(g)
              /\ Len(g.freeTx)
                   = Len(freeTxBuffers) + Cardinality(DrainedBy(g)) - 1
              /\ g.txPosted = txPosted

\* C35: getTransmitBuffer returns in the end if every posted send produces
\* a completion in the end; it polls the transmit completion queue only
\* while the free list is empty; and at its return the free list holds
\* what it held at the call plus the buffers of the completions drained,
\* less exactly the one buffer returned.
C35_GetTransmitBuffer ==
    []GetTransmitBufferEffect
        /\ (TxStarved ~> ~getTransmitBuffer(Transport).blocked)

\* C35 witness: a third request was sent with two transmit buffers, so a
\* call found the free list empty, drained both completions, returned one
\* buffer and left the other free.
C35_Witness ==
    /\ Len(rpcs) = 3
    /\ \A r \in 1..3 : rpcs[r].state # "PENDING"
    /\ Len(freeTxBuffers) = 1
    /\ Len(txPosted) = 1
    /\ commonTxCq = <<>>

\* ------------------------------------------------------ membership service
\* Locators the test enlists servers under.
SourceLocators == {"mock:host=55", "mock:host=56", "mock:host=57"}

\* A ServerId <<index, generation>> as the one number ProtoBuf carries,
\* and back.
GenerationShift == 128
getId(id) == id[2] * GenerationShift + id[1]
ServerId(n) == <<n % GenerationShift, n \div GenerationShift>>

\* ServerList::contains and ServerList::getLocator
contains(list, id) == \E e \in list : e.id = id
getLocator(list, id) ==
    IF contains(list, id)
    THEN (CHOOSE e \in list : e.id = id).locator
    ELSE "none"

\* One entry of a ProtoBuf::ServerList.
ProtoBufServer(id, locator) ==
    [server_id |-> getId(id), service_locator |-> locator]

\* CoordinatorServerList::add: the new server gets the next index.
CoordinatorAdd(list, locator) ==
    Append(list, [id |-> <<Len(list) + 1, 0>>, locator |-> locator])

\* CoordinatorServerList::serialize: the whole list as a ProtoBuf.
serialize(list) ==
    [i \in 1..Len(list) |-> ProtoBufServer(list[i].id, list[i].locator)]

\* The server applies an update: every entry of the ProtoBuf is added,
\* the entries it has stay.
applyUpdate(list, pb) ==
    {e \in list : \A i \in 1..Len(pb) : ServerId(pb[i].server_id) # e.id}
      \cup {[id |-> ServerId(pb[i].server_id),
             locator |-> pb[i].service_locator] : i \in 1..Len(pb)}

\* A bug variant: the full list is merged into the list like an update.
applyFullListMerging(list, pb) == applyUpdate(list, pb)

\* The server applies a full list: its list becomes the entries of the
\* ProtoBuf.
applyFullList(list, pb) ==
    {[id |-> ServerId(pb[i].server_id),
      locator |-> pb[i].service_locator] : i \in 1..Len(pb)}

\* source.add(locator, services, 100, update)
SourceAdd ==
    /\ Len(source) < MaxSourceServers
    /\ \E locator \in SourceLocators :
         /\ source' = CoordinatorAdd(source, locator)
         /\ update' = Append(update,
                             ProtoBufServer(<<Len(source) + 1, 0>>, locator))
    /\ UNCHANGED <<serverList, memberLog>>

\* source.serialize(fullList);
\* MembershipClient::setServerList(context, serverId, fullList)
SetServerList ==
    /\ serverList' = applyFullList(serverList, serialize(source))
    /\ memberLog' = [seq |-> 1 - memberLog.seq, op |-> "setServerList"]
    /\ UNCHANGED <<source, update>>

\* MembershipClient::updateServerList(context, serverId, update)
UpdateServerList ==
    /\ update # <<>>
    /\ serverList' = applyUpdate(serverList, update)
    /\ memberLog' = [seq |-> 1 - memberLog.seq, op |-> "updateServerList"]
    /\ UNCHANGED <<source, update>>

NextMember ==
    \/ SourceAdd /\ UNCHANGED <<vars, wmVars, hsVars, sendVars, srvVars>>
    \/ SetServerList /\ UNCHANGED <<vars, wmVars, hsVars, sendVars, srvVars>>
    \/ UpdateServerList
         /\ UNCHANGED <<vars, wmVars, hsVars, sendVars, srvVars>>

SpecMember == Init /\ [][NextMember]_allVars

\* A step that is a setServerList call.
SetServerListCall ==
    memberLog'.seq # memberLog.seq /\ memberLog'.op = "setServerList"

====
